---------------------------- MODULE Spec2Model ----------------------------
(***************************************************************************)
(* A model of the spl-staking program (src/src/processor.rs, state.rs,     *)
(* instruction.rs): the contract record, the per-user records, the token   *)
(* accounts the program moves tokens between, and the host's transaction   *)
(* rules the program relies on (atomic transactions, the clock, the purge  *)
(* of zero-lamport accounts when a transaction commits).                   *)
(*                                                                         *)
(* Units.  Time is counted in units of 86400 seconds (one day): the clock  *)
(* and every duration of the model are multiples of a day, so the          *)
(* program's 86400-second hold is 1 unit and its divisor 31536000000 is    *)
(* 31536000000 / 86400 = 365000 units.  On such inputs                     *)
(*   floor(apy * p * (86400 * d) / 31536000000) = floor(apy * p * d / 365000)   *)
(* exactly.  All amounts of the model stay far below 2^64, so no u64 or    *)
(* u128 operation of the handlers overflows in the states explored here;   *)
(* a subtraction that would go below zero is modelled as the rejection it  *)
(* leads to (see PerformUnstake).                                          *)
(***************************************************************************)
EXTENDS Integers, Sequences, FiniteSets, TLC

(***************************************************************************)
(* Addresses.  Wallet keys and token-account keys are 1-tuples, program    *)
(* derived addresses are the tuple of their seeds, so that two addresses   *)
(* are equal exactly when kind and seeds are equal.                        *)
(***************************************************************************)
ZeroKey == <<"0">>
AdminKey == <<"adm">>
OtherAdminKey == <<"adm2">>
User1 == <<"u1">>
User2 == <<"u2">>
Users == {User1, User2}
Signers == {AdminKey, OtherAdminKey} \cup Users
MintKey == <<"m1">>
OtherMint == <<"m2">>
VaultKey == <<"vault">>
OtherVaultKey == <<"vault2">>
Vaults == {VaultKey, OtherVaultKey}
TokenAccountOf(u) == <<"ta", u[1]>>
TokenAccounts == Vaults \cup {TokenAccountOf(u) : u \in Users}

\* Pubkey::find_program_address(&[b"spl_staking", admin, mint], program_id)
ContractPda(admin, mint) == <<"spl_staking", admin[1], mint[1]>>
\* Pubkey::find_program_address(&[b"spl_staking_user", user], program_id)
UserPda(user) == <<"spl_staking_user", user[1]>>
ContractKey == ContractPda(AdminKey, MintKey)
\* a second pool on the same mint, of another admin
OtherContractKey == ContractPda(OtherAdminKey, MintKey)
ContractKeys == {ContractKey, OtherContractKey}
UserRecordKeys == {UserPda(u) : u \in Users}
OwnerOfPda(k) == CHOOSE u \in Users : UserPda(u) = k

(***************************************************************************)
(* Program constants (time in days, see Units above).                      *)
(***************************************************************************)
\* 31536000000_u128 / 86400
YEAR_IN_SECONDS_SCALED == 365000
\* stake_duration < 86400
MIN_NORMAL_HOLD == 1
\* early_withdrawal_fee * total_staked / 1000_u128
FEE_DENOMINATOR == 1000
\* (9 * amount_out as u128) / 100
PAYOUT_FEE_PERCENT == 9
\* ContractData::LEN and UserData::LEN
CONTRACT_LEN == 153
USER_LEN == 89
\* Rent::minimum_balance(len) = (128 + len) * 3480 * 2 lamports
RentFor(len) == (128 + len) * 6960
\* decimals and transfer-fee basis points of the mint the tests stake (tests/test.rs)
MINT_DECIMALS == 9
MINT_FEE_BASIS_POINTS == 800
\* the basis points the tests change the fee configuration to
NEW_FEE_BASIS_POINTS == 1000

(***************************************************************************)
(* Bounds of the model.                                                    *)
(***************************************************************************)
MaxTime == 2
MaxTxLen == 2
\* tokens of User1, of User2 and of the vault before Init
UserTokens == 2100
OtherUserTokens == 505
VaultTokens == 2500
\* how many user records a wallet can pay the rent of
UserRentBudget == 1
\* u64::MAX of WordSpec: the 64-bit word scaled down to 4 bits
U64Max == 15
\* the mint's maximum transfer fee: above every fee of the model, as in the tests
MintMaxFee == 1000000
\* what User1 and User2 stake at a time
StakeAmount == 1000
OtherStakeAmount == 405
\* what Init is called with: minimum_stake_amount, minimum_lock_duration (in days), the
\* two APYs (in tenths of a percent) and the early-withdrawal fee (per mille)
MinStake == 100
MinLock == 1
InitNormalApy == 1000
InitLockedApy == 2000
EarlyWithdrawalFee == 100
\* the APYs UpdateAPY is called with
NewNormalApy == 2000
NewLockedApy == 1000
\* PoolSpec: the tokens of its one staker, and what it stakes at a time (an amount below
\* MinStake, or nothing)
PoolUserTokens == 250
DustAmount == 80
PoolStakeAmounts == {0, DustAmount}
\* the lock a LOCKED Stake asks for, in days
LockDurations == {0, 1}
\* a lock above the minimum, which User2 may ask for at one Stake and not at the next
LongLock == 2
StakeTypes == {"NORMAL", "LOCKED"}

VARIABLES
    contract,   \* the contract-record account at ContractKey: lamports, data length, ContractData
    other,      \* the contract-record account at OtherContractKey
    users,      \* the user-record account at UserPda(u), per wallet u: lamports, data length, UserData
    tokens,     \* the token accounts: owner, mint, amount
    sol,        \* lamports of the wallets that pay for account creation
    mint,       \* the stake mint: decimals and transfer-fee schedule
    now,        \* Clock::get().unix_timestamp, in days
    txlen,      \* instructions executed in the open transaction (0: none open)
    snap,       \* the accounts as they were when the open transaction started
    last,       \* what the most recent instruction was and what it computed
    eval        \* a function of the program applied on its own: its input and what it returned

vars == <<contract, other, users, tokens, sol, mint, now, txlen, snap, last, eval>>

(***************************************************************************)
(* Record layouts (state.rs).                                              *)
(***************************************************************************)
ZeroContractData ==
    [ is_initialized |-> FALSE, admin_pubkey |-> ZeroKey, stake_token_mint |-> ZeroKey,
      stake_token_account |-> ZeroKey, minimum_stake_amount |-> 0,
      minimum_lock_duration |-> 0, normal_staking_apy |-> 0, locked_staking_apy |-> 0,
      early_withdrawal_fee |-> 0, total_staked |-> 0, total_earned |-> 0 ]

ZeroUserData ==
    [ is_initialized |-> FALSE, owner_pubkey |-> ZeroKey, stake_type |-> "NORMAL",
      lock_duration |-> 0, total_staked |-> 0, interest_accrued |-> 0, stake_ts |-> 0,
      last_claim_ts |-> 0, last_unstake_ts |-> 0 ]

\* an address nobody has created an account at
NoAccount(zero) == [ lamports |-> 0, data_len |-> 0, data |-> zero ]

\* The accounts an instruction can change, as one value.
Accounts ==
    [ contract |-> contract, other |-> other, users |-> users, tokens |-> tokens,
      sol |-> sol ]

\* the account at the address an instruction is given as its contract data account
ContractAt(k) ==
    IF k = ContractKey THEN contract
    ELSE IF k = OtherContractKey THEN other
    ELSE NoAccount(ZeroContractData)

\* the accounts acc with the contract record at k replaced by c
PutContract(acc, k, c) ==
    IF k = ContractKey THEN [acc EXCEPT !.contract = c] ELSE [acc EXCEPT !.other = c]

(***************************************************************************)
(* The token program (spl_token_2022), as far as the handlers use it.      *)
(***************************************************************************)
Min(a, b) == IF a <= b THEN a ELSE b
CeilDiv(a, b) == (a + b - 1) \div b

\* Processor::get_transfer_fee: TransferFeeConfig::calculate_epoch_fee of the mint
TransferFee(amount) ==
    IF mint.fee_basis_points = 0 \/ amount = 0 THEN 0
    ELSE Min(CeilDiv(amount * mint.fee_basis_points, 10000), mint.max_fee)

\* transfer_checked_with_fee(source, mint, destination, authority, amount, decimals, fee):
\* whether the token program accepts it
TransferOk(tk, src, mint_key, dst, authority, amount, decimals, fee) ==
    /\ src # dst
    /\ tk[src].mint = mint_key
    /\ tk[dst].mint = mint_key
    /\ mint_key = MintKey
    /\ (decimals % 256) = mint.decimals
    /\ fee = TransferFee(amount)
    /\ tk[src].owner = authority
    /\ tk[src].amount >= amount

\* ... and the balances after it: the fee is withheld from what the destination receives
TransferApply(tk, src, dst, amount, fee) ==
    [tk EXCEPT ![src].amount = @ - amount, ![dst].amount = @ + (amount - fee)]

\* system_instruction::create_account(payer, new, lamports, space, owner): refused when the
\* new address is already in use or the payer cannot fund it
CreateAccountOk(acct, payer_lamports, required) ==
    /\ acct.lamports = 0
    /\ acct.data_len = 0
    /\ payer_lamports >= required

\* rent.minimum_balance(LEN).max(1).saturating_sub(account.lamports())
RequiredLamports(len, acct) ==
    LET m == IF RentFor(len) >= 1 THEN RentFor(len) ELSE 1
    IN  IF m >= acct.lamports THEN m - acct.lamports ELSE 0

(***************************************************************************)
(* What an instruction reports: whether it returned Ok, the accounts it    *)
(* left, the check that refused it, and the values it logs on the way.     *)
(***************************************************************************)
NoInfo ==
    [ first |-> FALSE, stake_type |-> "NORMAL", amount |-> 0, lock_duration |-> 0,
      interest |-> 0, amount_out |-> 0, gross |-> 0, fee |-> 0 ]

Rejected(why) == [ ok |-> FALSE, why |-> why, acc |-> Accounts, info |-> NoInfo ]
Accepted(acc, info) == [ ok |-> TRUE, why |-> "", acc |-> acc, info |-> info ]

\* if minimum_stake_amount == 0 { return Err(InvalidInstructionData) }
\* (variant: the check is left out)
ZeroMinimumStakeUnchecked(minimum_stake_amount) == FALSE
ZeroMinimumStake(minimum_stake_amount) == minimum_stake_amount = 0

(***************************************************************************)
(* Processor::init                                                         *)
(***************************************************************************)
\* ContractData (state.rs) has the eleven fields of ZeroContractData; it has none for
\* fee_basis_points and max_fee, which init assigns (processor.rs:193-194), and
\* pack_into_slice writes the eleven: the two values are not part of the record.
\* (a variant of init that writes the record whatever it finds at the address)
InitResultOverwriting(admin, is_signer, data_account, token_account, mint_key, minimum_stake_amount, minimum_lock_duration, normal_staking_apy, locked_staking_apy, early_withdrawal_fee, fee_basis_points, max_fee) ==
    LET acct == ContractAt(data_account) IN
    IF ~is_signer THEN Rejected("MissingRequiredSignature")
    ELSE IF ZeroMinimumStake(minimum_stake_amount) THEN Rejected("ZeroMinimumStake")
    ELSE IF ContractPda(admin, mint_key) # data_account THEN Rejected("PdaMismatch")
    ELSE Accepted(
        PutContract(
            [ Accounts EXCEPT
                !.sol[admin] = @ - RequiredLamports(CONTRACT_LEN, acct),
                !.tokens[token_account].owner = ContractPda(admin, mint_key) ],
            data_account,
            [ lamports |-> acct.lamports + RequiredLamports(CONTRACT_LEN, acct),
              data_len |-> CONTRACT_LEN,
              data |-> [ ZeroContractData EXCEPT
                           !.is_initialized = TRUE,
                           !.admin_pubkey = admin,
                           !.stake_token_mint = mint_key,
                           !.stake_token_account = token_account,
                           !.minimum_stake_amount = minimum_stake_amount,
                           !.minimum_lock_duration = minimum_lock_duration,
                           !.normal_staking_apy = normal_staking_apy,
                           !.locked_staking_apy = locked_staking_apy,
                           !.early_withdrawal_fee = early_withdrawal_fee ] ]),
        NoInfo)

InitResult(admin, is_signer, data_account, token_account, mint_key, minimum_stake_amount, minimum_lock_duration, normal_staking_apy, locked_staking_apy, early_withdrawal_fee, fee_basis_points, max_fee) ==
    LET pda_addr == ContractPda(admin, mint_key)
        acct == ContractAt(data_account)
        required_lamports == RequiredLamports(CONTRACT_LEN, acct)
    IN
    IF ~is_signer THEN Rejected("MissingRequiredSignature")
    ELSE IF ZeroMinimumStake(minimum_stake_amount) THEN Rejected("ZeroMinimumStake")
    ELSE IF pda_addr # data_account THEN Rejected("PdaMismatch")
    \* invoke_signed(create_account): the contract record's account
    ELSE IF ~CreateAccountOk(acct, sol[admin], required_lamports)
    THEN Rejected("CreateAccountFailed")
    \* invoke(set_authority): the admin must own the token account it hands over
    ELSE IF tokens[token_account].owner # admin THEN Rejected("SetAuthorityFailed")
    \* unpack_unchecked of the created account, then the is_initialized check
    ELSE IF acct.data.is_initialized THEN Rejected("AccountAlreadyInitialized")
    ELSE Accepted(
        PutContract(
            [ Accounts EXCEPT
                !.sol[admin] = @ - required_lamports,
                !.tokens[token_account].owner = pda_addr ],
            data_account,
            [ lamports |-> acct.lamports + required_lamports,
              data_len |-> CONTRACT_LEN,
              data |-> [ is_initialized |-> TRUE,
                         admin_pubkey |-> admin,
                         stake_token_mint |-> mint_key,
                         stake_token_account |-> token_account,
                         minimum_stake_amount |-> minimum_stake_amount,
                         minimum_lock_duration |-> minimum_lock_duration,
                         normal_staking_apy |-> normal_staking_apy,
                         locked_staking_apy |-> locked_staking_apy,
                         early_withdrawal_fee |-> early_withdrawal_fee,
                         total_staked |-> 0,
                         total_earned |-> 0 ] ]),
        NoInfo)

(***************************************************************************)
(* Processor::update_apy                                                   *)
(***************************************************************************)
\* if normal_staking_apy < 1 || locked_staking_apy < 1 { return Err(..) }
\* (variant: the check is left out)
InvalidApyUnchecked(normal_staking_apy, locked_staking_apy) == FALSE
InvalidApy(normal_staking_apy, locked_staking_apy) ==
    normal_staking_apy < 1 \/ locked_staking_apy < 1

\* the error update_apy ends with at each of its rejections; unpack_from_slice of an
\* account shorter than a contract record indexes past its end, and the program fails
\* to complete
UpdateApyError(why) ==
    CASE why = "MissingRequiredSignature" -> "MissingRequiredSignature"
      [] why = "InvalidApy" -> "InvalidInstructionData"
      [] why = "UnpackFailed" -> "ProgramFailedToComplete"
      [] why = "NotAdmin" -> "InvalidAccountData"
      [] OTHER -> ""

\* (variant: the stored admin is not compared with the caller)
UpdateApyResultAnyCaller(admin, is_signer, data_account, normal_staking_apy, locked_staking_apy) ==
    LET acct == ContractAt(data_account) IN
    IF InvalidApy(normal_staking_apy, locked_staking_apy) THEN Rejected("InvalidApy")
    ELSE IF data_account \notin ContractKeys \/ acct.data_len = 0 THEN Rejected("UnpackFailed")
    ELSE Accepted(
        PutContract(Accounts, data_account,
                    [ acct EXCEPT !.data.normal_staking_apy = normal_staking_apy,
                                  !.data.locked_staking_apy = locked_staking_apy ]),
        NoInfo)

\* (variant: the two APYs land in each other's field)
UpdateApyResultSwapped(admin, is_signer, data_account, normal_staking_apy, locked_staking_apy) ==
    LET acct == ContractAt(data_account) IN
    IF ~is_signer THEN Rejected("MissingRequiredSignature")
    ELSE IF InvalidApy(normal_staking_apy, locked_staking_apy) THEN Rejected("InvalidApy")
    ELSE IF data_account \notin ContractKeys \/ acct.data_len = 0 THEN Rejected("UnpackFailed")
    ELSE IF acct.data.admin_pubkey # admin THEN Rejected("NotAdmin")
    ELSE Accepted(
        PutContract(Accounts, data_account,
                    [ acct EXCEPT !.data.normal_staking_apy = locked_staking_apy,
                                  !.data.locked_staking_apy = normal_staking_apy ]),
        NoInfo)

\* (variant: the record is written one field early, normal_staking_apy over
\* minimum_lock_duration)
UpdateApyResultShifted(admin, is_signer, data_account, normal_staking_apy, locked_staking_apy) ==
    LET acct == ContractAt(data_account) IN
    IF ~is_signer THEN Rejected("MissingRequiredSignature")
    ELSE IF InvalidApy(normal_staking_apy, locked_staking_apy) THEN Rejected("InvalidApy")
    ELSE IF data_account \notin ContractKeys \/ acct.data_len = 0 THEN Rejected("UnpackFailed")
    ELSE IF acct.data.admin_pubkey # admin THEN Rejected("NotAdmin")
    ELSE Accepted(
        PutContract(Accounts, data_account,
                    [ acct EXCEPT !.data.minimum_lock_duration = normal_staking_apy,
                                  !.data.normal_staking_apy = locked_staking_apy ]),
        NoInfo)

UpdateApyResult(admin, is_signer, data_account, normal_staking_apy, locked_staking_apy) ==
    LET acct == ContractAt(data_account) IN
    IF ~is_signer THEN Rejected("MissingRequiredSignature")
    ELSE IF InvalidApy(normal_staking_apy, locked_staking_apy) THEN Rejected("InvalidApy")
    \* unpack_from_slice of the supplied account: it must hold a contract record
    ELSE IF data_account \notin ContractKeys \/ acct.data_len = 0 THEN Rejected("UnpackFailed")
    ELSE IF acct.data.admin_pubkey # admin THEN Rejected("NotAdmin")
    ELSE Accepted(
        PutContract(Accounts, data_account,
                    [ acct EXCEPT !.data.normal_staking_apy = normal_staking_apy,
                                  !.data.locked_staking_apy = locked_staking_apy ]),
        NoInfo)

\* Processor::process: the match over the decoded instruction has arms for Init, Stake,
\* UnStake and UpdateAPY.  For ChangeTransferFeeConfig, which Instruction::unpack decodes
\* from tag 3, it has none, and no function of the processor handles it: the instruction
\* is not carried out.
ChangeTransferFeeConfigResult(admin, is_signer, data_account, fee_basis_points, max_fee) ==
    Rejected("NoMatchArm")

(***************************************************************************)
(* The interest engine: the accrual expression of perform_staking and      *)
(* perform_unstake, and the early-withdrawal charge.                       *)
(***************************************************************************)
\* ((apy as u128 * total_staked as u128 * stake_duration as u128) / 31536000000_u128) as u64
\* (variant: rounded up instead of down)
InterestRoundedUp(apy, total_staked, stake_duration) ==
    (apy * total_staked * stake_duration + YEAR_IN_SECONDS_SCALED - 1)
        \div YEAR_IN_SECONDS_SCALED
Interest(apy, total_staked, stake_duration) ==
    (apy * total_staked * stake_duration) \div YEAR_IN_SECONDS_SCALED

\* (early_withdrawal_fee as u128 * total_staked as u128) / 1000_u128
\* (variant: the fee read as a percentage)
EarlyUnstakeChargePercent(early_withdrawal_fee, total_staked) ==
    (early_withdrawal_fee * total_staked) \div 100
EarlyUnstakeCharge(early_withdrawal_fee, total_staked) ==
    (early_withdrawal_fee * total_staked) \div FEE_DENOMINATOR

\* u64::saturating_sub
SaturatingSub(a, b) == IF a >= b THEN a - b ELSE 0

\* contract_data.total_earned.saturating_add(interest_accrued) of perform_unstake and
\* contract_data.total_earned.add(interest_accrued) of perform_staking, for sums below
\* 2^64, where the two agree (WordSpec below has them at the width)
AddEarned(total_earned, interest_accrued) == total_earned + interest_accrued

\* the payout of a NORMAL or matured LOCKED exit:
\* interest_accrued.add(user_data.interest_accrued), then .add(user_data.total_staked)
\* (variant: the stored interest is left out)
MaturedPayoutNewInterestOnly(total_staked, interest_accrued, stored_interest) ==
    total_staked + interest_accrued
MaturedPayout(total_staked, interest_accrued, stored_interest) ==
    total_staked + (interest_accrued + stored_interest)

\* if stake_duration < 86400 { return Err(..) }: whether a NORMAL record may leave
\* (variant: no hold)
HoldUnchecked(stake_duration) == TRUE
HoldElapsed(stake_duration) == ~(stake_duration < MIN_NORMAL_HOLD)

\* the first-stake branch's writes to the user record
\* (variant: is_initialized is not set)
FirstStakeUninitialized(user_data, amount) == [ user_data EXCEPT !.total_staked = amount ]
FirstStake(user_data, amount) ==
    [ user_data EXCEPT !.is_initialized = TRUE, !.total_staked = amount ]

\* perform_staking, restake branch: the interest is folded, the amount added, and
\* stake_ts and lock_duration are set anew
\* (variants: the clock of the record is left running; the lock of the record is kept)
RestakeKeepingClock(user_data, amount, interest_accrued, lock_duration, current_ts) ==
    [ user_data EXCEPT !.interest_accrued = @ + interest_accrued,
                       !.total_staked = @ + amount ]
RestakeKeepingLock(user_data, amount, interest_accrued, lock_duration, current_ts) ==
    [ user_data EXCEPT !.interest_accrued = @ + interest_accrued,
                       !.total_staked = @ + amount,
                       !.stake_ts = current_ts ]
Restake(user_data, amount, interest_accrued, lock_duration, current_ts) ==
    [ user_data EXCEPT !.interest_accrued = @ + interest_accrued,
                       !.total_staked = @ + amount,
                       !.stake_ts = current_ts,
                       !.lock_duration = lock_duration ]

\* user_token_account_data.amount < contract_data.minimum_stake_amount
\* (variant: the check is left out)
BalanceBelowMinimumUnchecked(amount, minimum_stake_amount) == FALSE
BalanceBelowMinimum(amount, minimum_stake_amount) == amount < minimum_stake_amount

\* lock_duration < contract_data.minimum_lock_duration
\* (variant: the check is left out)
LockBelowMinimumUnchecked(lock_duration, minimum_lock_duration) == FALSE
LockBelowMinimum(lock_duration, minimum_lock_duration) ==
    lock_duration < minimum_lock_duration

\* user_token_account_data.owner != *user_info.key
\* (variant: the check is left out)
UserTokenAccountInvalidUnchecked(owner, user) == FALSE
UserTokenAccountInvalid(owner, user) == owner # user

\* the supplied user data account against the address derived from
\* ["spl_staking_user", user]
\* (variant: the supplied account is taken as it is)
UserPdaMismatchUnchecked(user_data_account, user) == FALSE
UserPdaMismatch(user_data_account, user) == user_data_account # UserPda(user)

\* the wallet whose record the supplied user data account is
HolderOf(user_data_account, user) ==
    IF user_data_account \in UserRecordKeys THEN OwnerOfPda(user_data_account) ELSE user

\* stake_type as u8 != user_data.stake_type.clone() as u8
\* (variant: the check is left out)
StakeTypeMismatchUnchecked(stake_type, stored_stake_type) == FALSE
StakeTypeMismatch(stake_type, stored_stake_type) == stake_type # stored_stake_type

\* The checks stake() and unstake() share, up to the match on the stake type: the check
\* that fails first, or "" when all pass.
AccountsError(user, is_signer, user_token_account, contract_token_account, contract_data_account) ==
    LET contract_data == ContractAt(contract_data_account).data
        contract_data_pda ==
            ContractPda(contract_data.admin_pubkey, contract_data.stake_token_mint)
    IN
    \* unpack_from_slice of the contract record
    IF contract_data_account \notin ContractKeys
          \/ ContractAt(contract_data_account).data_len = 0
    THEN "UnpackFailed"
    ELSE IF ~is_signer THEN "MissingRequiredSignature"
    ELSE IF UserTokenAccountInvalid(tokens[user_token_account].owner, user)
    THEN "InvalidUserTokenAccount"
    ELSE IF tokens[user_token_account].mint # contract_data.stake_token_mint
    THEN "InvalidUserTokenMint"
    ELSE IF BalanceBelowMinimum(tokens[user_token_account].amount,
                                contract_data.minimum_stake_amount)
    THEN "InsufficientFunds"
    ELSE IF contract_data_pda # contract_data_account THEN "InvalidContractDataAccount"
    ELSE IF contract_token_account # contract_data.stake_token_account
    THEN "InvalidContractTokenAccount"
    ELSE IF contract_data.stake_token_mint # tokens[contract_token_account].mint
    THEN "InvalidContractTokenMint"
    ELSE IF contract_data_pda # tokens[contract_token_account].owner
    THEN "InvalidContractTokenOwner"
    ELSE ""

(***************************************************************************)
(* Processor::perform_staking, entered from Processor::stake               *)
(***************************************************************************)
PerformStaking(user, user_token_account, user_data_account, contract_token_account, contract_data_account, mint_key, stake_type, amount, decimals, apy, lock_duration) ==
    LET holder == HolderOf(user_data_account, user)
        acct == users[holder]
        contract_acct == ContractAt(contract_data_account)
        contract_data == contract_acct.data
        create == acct.data_len = 0
        required_lamports == RequiredLamports(USER_LEN, acct)
        \* the record the handler works on: a created one, or the stored one
        user_data ==
            IF create
            THEN [ ZeroUserData EXCEPT !.stake_type = stake_type,
                                       !.owner_pubkey = user,
                                       !.lock_duration = lock_duration,
                                       !.stake_ts = now ]
            ELSE acct.data
        fee == TransferFee(amount)
        transfer_ok ==
            /\ mint_key = contract_data.stake_token_mint
            /\ TransferOk(tokens, user_token_account, contract_data.stake_token_mint,
                          contract_token_account, user, amount, decimals, fee)
        stake_interval == now - user_data.stake_ts
        interest_accrued == Interest(apy, user_data.total_staked, stake_interval)
        first == ~user_data.is_initialized
        new_user_data ==
            IF first
            THEN FirstStake(user_data, amount)
            ELSE Restake(user_data, amount, interest_accrued, lock_duration, now)
        new_contract_data ==
            IF first
            THEN [ contract_data EXCEPT !.total_staked = @ + amount ]
            ELSE [ contract_data EXCEPT !.total_staked = @ + amount,
                                        !.total_earned = AddEarned(@, interest_accrued) ]
    IN
    IF UserPdaMismatch(user_data_account, user) THEN Rejected("UserPdaMismatch")
    \* invoke_signed(create_account) of ns_user_data_pda, with the supplied account
    ELSE IF create /\ ~( /\ user_data_account = UserPda(user)
                         /\ CreateAccountOk(acct, sol[user], required_lamports) )
    THEN Rejected("CreateAccountFailed")
    ELSE IF ~first /\ StakeTypeMismatch(stake_type, user_data.stake_type)
    THEN Rejected("StakeTypeMismatch")
    ELSE IF ~transfer_ok THEN Rejected("TransferFailed")
    ELSE Accepted(
        PutContract(
            [ Accounts EXCEPT
                !.sol[user] = IF create THEN @ - required_lamports ELSE @,
                !.tokens = TransferApply(tokens, user_token_account,
                                         contract_token_account, amount, fee),
                !.users[holder] =
                    [ lamports |-> IF create THEN acct.lamports + required_lamports
                                   ELSE acct.lamports,
                      data_len |-> USER_LEN,
                      data |-> new_user_data ] ],
            contract_data_account,
            [ contract_acct EXCEPT !.data = new_contract_data ]),
        [ NoInfo EXCEPT !.first = first, !.stake_type = stake_type, !.amount = amount,
                        !.lock_duration = lock_duration,
                        !.interest = IF first THEN 0 ELSE interest_accrued,
                        !.fee = fee ])

\* the APY stake() and unstake() hand on: the contract record's APY of the stake type, as
\* it stands when the instruction runs
\* (variant: the APY of the other stake type)
StakingApySwapped(contract_data, stake_type) ==
    IF stake_type = "NORMAL" THEN contract_data.locked_staking_apy
    ELSE contract_data.normal_staking_apy
StakingApy(contract_data, stake_type) ==
    IF stake_type = "NORMAL" THEN contract_data.normal_staking_apy
    ELSE contract_data.locked_staking_apy

StakeResult(user, is_signer, user_token_account, user_data_account, contract_token_account, contract_data_account, mint_key, stake_type, amount, lock_duration, decimals) ==
    LET err == AccountsError(user, is_signer, user_token_account, contract_token_account,
                             contract_data_account)
        contract_data == ContractAt(contract_data_account).data
    IN
    IF err # "" THEN Rejected(err)
    ELSE IF stake_type = "NORMAL"
    THEN PerformStaking(user, user_token_account, user_data_account,
                        contract_token_account, contract_data_account, mint_key,
                        "NORMAL", amount, decimals, StakingApy(contract_data, "NORMAL"),
                        0)
    ELSE IF LockBelowMinimum(lock_duration, contract_data.minimum_lock_duration)
    THEN Rejected("LockDurationBelowMinimum")
    ELSE PerformStaking(user, user_token_account, user_data_account,
                        contract_token_account, contract_data_account, mint_key,
                        "LOCKED", amount, decimals, StakingApy(contract_data, "LOCKED"),
                        lock_duration)

(***************************************************************************)
(* Processor::perform_unstake, entered from Processor::unstake             *)
(***************************************************************************)
PerformUnstake(user, user_token_account, user_data_account, contract_token_account, contract_data_account, mint_key, stake_type, apy, decimals) ==
    LET holder == HolderOf(user_data_account, user)
        acct == users[holder]
        contract_acct == ContractAt(contract_data_account)
        contract_data == contract_acct.data
        user_data == acct.data
        stake_duration == now - user_data.stake_ts
        matured ==
            IF stake_type = "NORMAL" THEN TRUE
            ELSE stake_duration >= user_data.lock_duration
        interest_accrued == Interest(apy, user_data.total_staked, stake_duration)
        early_unstake_charge ==
            EarlyUnstakeCharge(contract_data.early_withdrawal_fee, user_data.total_staked)
        amount_out ==
            IF matured
            THEN MaturedPayout(user_data.total_staked, interest_accrued,
                               user_data.interest_accrued)
            ELSE user_data.total_staked - early_unstake_charge
        authority_pda ==
            ContractPda(contract_data.admin_pubkey, contract_data.stake_token_mint)
        fee == (PAYOUT_FEE_PERCENT * amount_out) \div 100
        amount_out_with_fee == amount_out + fee
        new_fee == TransferFee(amount_out_with_fee)
        transfer_ok ==
            /\ mint_key = contract_data.stake_token_mint
            /\ TransferOk(tokens, contract_token_account, contract_data.stake_token_mint,
                          user_token_account, authority_pda, amount_out_with_fee,
                          decimals, new_fee)
        data_lamports == acct.lamports
    IN
    IF UserPdaMismatch(user_data_account, user) THEN Rejected("UserPdaMismatch")
    ELSE IF stake_type = "NORMAL" /\ ~HoldElapsed(stake_duration)
    THEN Rejected("MinimumHold")
    \* total_staked as u128 - early_unstake_charge below zero: the subtraction aborts, or
    \* wraps to an amount no vault of this model holds
    ELSE IF ~matured /\ early_unstake_charge > user_data.total_staked
    THEN Rejected("ChargeAbovePrincipal")
    ELSE IF ~transfer_ok THEN Rejected("TransferFailed")
    ELSE Accepted(
        PutContract(
            [ Accounts EXCEPT
                !.tokens = TransferApply(tokens, contract_token_account,
                                         user_token_account, amount_out_with_fee,
                                         new_fee),
                !.users[holder].lamports = 0 ],
            contract_data_account,
            [ contract_acct EXCEPT
                !.lamports = @ + data_lamports,
                !.data.total_earned =
                    IF matured THEN AddEarned(@, interest_accrued) ELSE @,
                !.data.total_staked = SaturatingSub(@, user_data.total_staked) ]),
        [ NoInfo EXCEPT !.stake_type = stake_type,
                        !.interest = IF matured THEN interest_accrued ELSE 0,
                        !.amount_out = amount_out,
                        !.gross = amount_out_with_fee,
                        !.fee = new_fee ])

UnstakeResult(user, is_signer, user_token_account, user_data_account, contract_token_account, contract_data_account, mint_key, decimals) ==
    LET err == AccountsError(user, is_signer, user_token_account, contract_token_account,
                             contract_data_account)
        contract_data == ContractAt(contract_data_account).data
    IN
    \* unpack_from_slice of the supplied user record: the account must hold one
    IF user_data_account \notin UserRecordKeys THEN Rejected("UnpackFailed")
    ELSE IF users[OwnerOfPda(user_data_account)].data_len = 0 THEN Rejected("UnpackFailed")
    ELSE IF err # "" THEN Rejected(err)
    ELSE IF users[OwnerOfPda(user_data_account)].data.stake_type = "NORMAL"
    THEN PerformUnstake(user, user_token_account, user_data_account,
                        contract_token_account, contract_data_account, mint_key,
                        "NORMAL", StakingApy(contract_data, "NORMAL"), decimals)
    ELSE PerformUnstake(user, user_token_account, user_data_account,
                        contract_token_account, contract_data_account, mint_key,
                        "LOCKED", StakingApy(contract_data, "LOCKED"), decimals)

(***************************************************************************)
(* The host.  A transaction is a sequence of instructions; an instruction  *)
(* that returns an error aborts the transaction, and every account is then *)
(* as it was when the transaction started; when a transaction commits, the *)
(* host purges the accounts left with zero lamports.  The clock does not   *)
(* move inside a transaction.                                              *)
(***************************************************************************)
\* what an instruction was called with: the accounts and the instruction data
NoArgs ==
    [ is_signer |-> FALSE, user_token_account |-> ZeroKey, user_data_account |-> ZeroKey,
      contract_token_account |-> ZeroKey, contract_data_account |-> ZeroKey,
      mint_key |-> ZeroKey, decimals |-> 0, stake_type |-> "NORMAL", amount |-> 0,
      lock_duration |-> 0, normal_staking_apy |-> 0, locked_staking_apy |-> 0,
      minimum_stake_amount |-> 0, minimum_lock_duration |-> 0,
      early_withdrawal_fee |-> 0, fee_basis_points |-> 0, max_fee |-> 0 ]

\* no function has been applied on its own
NoEval == [ of |-> "none" ]

Idle == [ kind |-> "idle", op |-> "none", signer |-> ZeroKey, args |-> NoArgs,
          ok |-> FALSE, why |-> "", info |-> NoInfo ]

Init ==
    /\ contract = NoAccount(ZeroContractData)
    /\ other = NoAccount(ZeroContractData)
    /\ users = [u \in Users |-> NoAccount(ZeroUserData)]
    /\ tokens = [k \in TokenAccounts |->
                    IF k = VaultKey
                    THEN [ owner |-> AdminKey, mint |-> MintKey, amount |-> VaultTokens ]
                    ELSE IF k = OtherVaultKey
                    THEN [ owner |-> OtherAdminKey, mint |-> MintKey,
                           amount |-> VaultTokens ]
                    ELSE [ owner |-> <<k[2]>>, mint |-> MintKey,
                           amount |-> IF k = TokenAccountOf(User1) THEN UserTokens
                                      ELSE OtherUserTokens ]]
    /\ sol = [k \in Signers |->
                    IF k \in {AdminKey, OtherAdminKey} THEN RentFor(CONTRACT_LEN)
                    ELSE UserRentBudget * RentFor(USER_LEN)]
    /\ mint = [ decimals |-> MINT_DECIMALS, fee_basis_points |-> MINT_FEE_BASIS_POINTS,
                max_fee |-> MintMaxFee ]
    /\ now = 0
    /\ txlen = 0
    /\ snap = Accounts
    /\ last = Idle
    /\ eval = NoEval

\* the accounts become acc
SetAccounts(acc) ==
    /\ contract' = acc.contract
    /\ other' = acc.other
    /\ users' = acc.users
    /\ tokens' = acc.tokens
    /\ sol' = acc.sol

\* the open transaction has hit an instruction that returned an error
Aborted == last.kind = "instr" /\ ~last.ok

\* One instruction of the open transaction (or the first of a new one) runs, with result
\* r: what it did to the accounts stays for the instructions after it.
Execute(op, signer, args, r) ==
    /\ last.kind \in {"idle", "instr"}
    /\ ~Aborted
    /\ txlen < MaxTxLen
    /\ SetAccounts(r.acc)
    /\ txlen' = txlen + 1
    /\ last' = [ kind |-> "instr", op |-> op, signer |-> signer, args |-> args,
                 ok |-> r.ok, why |-> r.why, info |-> r.info ]
    /\ UNCHANGED <<mint, now, snap, eval>>

\* the host's purge of a zero-lamport account
Purged(acct) ==
    IF acct.lamports = 0 THEN NoAccount(ZeroUserData) ELSE acct

\* The transaction ends: aborted, it leaves the accounts as they were at its start;
\* otherwise its effects become the committed state, less the purged accounts.
AfterTransaction ==
    IF Aborted THEN snap
    ELSE [ Accounts EXCEPT !.users = [u \in Users |-> Purged(users[u])] ]

Commit ==
    /\ last.kind = "instr"
    /\ SetAccounts(AfterTransaction)
    /\ snap' = AfterTransaction
    /\ txlen' = 0
    /\ last' = [ last EXCEPT !.kind = "commit", !.args = NoArgs ]
    /\ UNCHANGED <<mint, now, eval>>

\* the client has the outcome of its transaction; the next one can be sent
Report ==
    /\ last.kind = "commit"
    /\ last' = Idle
    /\ UNCHANGED <<contract, other, users, tokens, sol, mint, now, txlen, snap, eval>>

Tick ==
    /\ last.kind = "idle"
    /\ now < MaxTime
    /\ now' = now + 1
    /\ UNCHANGED <<contract, other, users, tokens, sol, mint, txlen, snap, last, eval>>

(***************************************************************************)
(* The instructions, with the accounts and the data a caller may supply:   *)
(* the accounts an honest client passes (tests/utils.rs), and each of them *)
(* replaced in turn by a wrong one.                                        *)
(***************************************************************************)
OtherUser(u) == IF u = User1 THEN User2 ELSE User1
WrongDecimals == MINT_DECIMALS + 1
WrongContractKey == UserPda(User1)

HonestAccounts(user) ==
    [ NoArgs EXCEPT
        !.is_signer = TRUE,
        !.user_token_account = TokenAccountOf(user),
        !.user_data_account = UserPda(user),
        !.contract_token_account = VaultKey,
        !.contract_data_account = ContractKey,
        !.mint_key = MintKey,
        !.decimals = MINT_DECIMALS ]

WrongAccounts(user) ==
    LET h == HonestAccounts(user) IN
    { [h EXCEPT !.is_signer = FALSE],
      [h EXCEPT !.user_token_account = TokenAccountOf(OtherUser(user))],
      [h EXCEPT !.user_data_account = UserPda(OtherUser(user))],
      [h EXCEPT !.contract_token_account = TokenAccountOf(user)],
      [h EXCEPT !.contract_data_account = WrongContractKey],
      [h EXCEPT !.mint_key = OtherMint],
      [h EXCEPT !.decimals = WrongDecimals] }

\* the data of a Stake instruction: User1 chooses type and lock, User2 stakes LOCKED
\* for the minimum lock or a longer one
StakeArgs(user) ==
    IF user = User1
    THEN [ stake_type : StakeTypes, amount : {StakeAmount}, lock_duration : LockDurations ]
    ELSE [ stake_type : {"LOCKED"}, amount : {OtherStakeAmount},
           lock_duration : {MinLock, LongLock} ]
\* the Stake a wrong account is tried with
ProbeStake(user) ==
    [ stake_type |-> "LOCKED",
      amount |-> IF user = User1 THEN StakeAmount ELSE OtherStakeAmount,
      lock_duration |-> MinLock ]

\* the accounts a and the Stake data d as one call
StakeCall(a, d) ==
    [ a EXCEPT !.stake_type = d.stake_type, !.amount = d.amount,
               !.lock_duration = d.lock_duration ]

\* Processor::process: the arm of each instruction
ProcessInit(admin, c) ==
    Execute("Init", admin, c,
            InitResult(admin, c.is_signer, c.contract_data_account,
                       c.contract_token_account, c.mint_key, c.minimum_stake_amount,
                       c.minimum_lock_duration, c.normal_staking_apy,
                       c.locked_staking_apy, c.early_withdrawal_fee, c.fee_basis_points,
                       c.max_fee))

ProcessStake(user, c) ==
    Execute("Stake", user, c,
            StakeResult(user, c.is_signer, c.user_token_account, c.user_data_account,
                        c.contract_token_account, c.contract_data_account, c.mint_key,
                        c.stake_type, c.amount, c.lock_duration, c.decimals))

ProcessUnstake(user, c) ==
    Execute("UnStake", user, c,
            UnstakeResult(user, c.is_signer, c.user_token_account, c.user_data_account,
                          c.contract_token_account, c.contract_data_account, c.mint_key,
                          c.decimals))

ProcessUpdateApy(admin, c) ==
    Execute("UpdateAPY", admin, c,
            UpdateApyResult(admin, c.is_signer, c.contract_data_account,
                            c.normal_staking_apy, c.locked_staking_apy))

ProcessChangeTransferFeeConfig(admin, c) ==
    Execute("ChangeTransferFeeConfig", admin, c,
            ChangeTransferFeeConfigResult(admin, c.is_signer, c.contract_data_account,
                                          c.fee_basis_points, c.max_fee))

\* what the admin of a pool calls Init with (tests/test.rs, in the units of the model)
InitCall(admin, data_account, token_account) ==
    [ NoArgs EXCEPT
        !.is_signer = TRUE,
        !.contract_data_account = data_account,
        !.contract_token_account = token_account,
        !.mint_key = MintKey,
        !.minimum_stake_amount = MinStake,
        !.minimum_lock_duration = MinLock,
        !.normal_staking_apy = InitNormalApy,
        !.locked_staking_apy = InitLockedApy,
        !.early_withdrawal_fee = EarlyWithdrawalFee,
        !.fee_basis_points = MINT_FEE_BASIS_POINTS,
        !.max_fee = MintMaxFee ]

\* the admin's Init, and the same with one thing wrong at a time
InitCalls ==
    LET h == InitCall(AdminKey, ContractKey, VaultKey) IN
    { h,
      [h EXCEPT !.is_signer = FALSE],
      [h EXCEPT !.contract_data_account = WrongContractKey],
      [h EXCEPT !.contract_token_account = TokenAccountOf(User1)],
      [h EXCEPT !.minimum_stake_amount = 0] }

DoInit ==
    \E c \in InitCalls : ProcessInit(AdminKey, c)

DoStake ==
    \E user \in Users :
      \E call \in ({HonestAccounts(user)} \X StakeArgs(user))
                    \cup (WrongAccounts(user) \X {ProbeStake(user)}) :
        ProcessStake(user, StakeCall(call[1], call[2]))

DoUnstake ==
    \E user \in Users :
      \E a \in {HonestAccounts(user)} \cup WrongAccounts(user) :
        ProcessUnstake(user, a)

\* the admin's UpdateAPY, the same with one thing wrong at a time, and another wallet's
UpdateApyCalls ==
    LET h == [ NoArgs EXCEPT !.is_signer = TRUE,
                             !.contract_data_account = ContractKey,
                             !.normal_staking_apy = NewNormalApy,
                             !.locked_staking_apy = NewLockedApy ]
    IN  ({AdminKey, User1} \X {h})
          \cup ({AdminKey} \X { [h EXCEPT !.is_signer = FALSE],
                                [h EXCEPT !.contract_data_account = WrongContractKey],
                                [h EXCEPT !.normal_staking_apy = 0],
                                [h EXCEPT !.locked_staking_apy = 0] })

DoUpdateApy ==
    \E call \in UpdateApyCalls : ProcessUpdateApy(call[1], call[2])

\* the call of tests/test.rs: the admin, the contract record, a new fee schedule
DoChangeTransferFeeConfig ==
    ProcessChangeTransferFeeConfig(AdminKey,
                                   [ NoArgs EXCEPT
                                       !.is_signer = TRUE,
                                       !.contract_data_account = ContractKey,
                                       !.fee_basis_points = NEW_FEE_BASIS_POINTS,
                                       !.max_fee = MintMaxFee ])

Next ==
    \/ DoInit
    \/ DoStake
    \/ DoUnstake
    \/ DoUpdateApy
    \/ DoChangeTransferFeeConfig
    \/ Commit
    \/ Report
    \/ Tick

Spec == Init /\ [][Next]_vars

(***************************************************************************)
(* Two pools.  Two admins initialize a contract record each, on the same   *)
(* mint and with a vault each, and one wallet stakes and unstakes against  *)
(* either, with the accounts of the pool it names.                         *)
(***************************************************************************)
VaultOf(pool) == IF pool = ContractKey THEN VaultKey ELSE OtherVaultKey
AdminOf(pool) == IF pool = ContractKey THEN AdminKey ELSE OtherAdminKey

PoolAccounts(user, pool) ==
    [ HonestAccounts(user) EXCEPT !.contract_token_account = VaultOf(pool),
                                  !.contract_data_account = pool ]

PoolInit ==
    /\ contract = NoAccount(ZeroContractData)
    /\ other = NoAccount(ZeroContractData)
    /\ users = [u \in Users |-> NoAccount(ZeroUserData)]
    /\ tokens = [k \in TokenAccounts |->
                    IF k \in Vaults
                    THEN [ owner |-> IF k = VaultKey THEN AdminKey ELSE OtherAdminKey,
                           mint |-> MintKey, amount |-> VaultTokens ]
                    ELSE [ owner |-> <<k[2]>>, mint |-> MintKey,
                           amount |-> IF k = TokenAccountOf(User1) THEN PoolUserTokens
                                      ELSE 0 ]]
    /\ sol = [k \in Signers |->
                    IF k \in {AdminKey, OtherAdminKey} THEN RentFor(CONTRACT_LEN)
                    ELSE UserRentBudget * RentFor(USER_LEN)]
    /\ mint = [ decimals |-> MINT_DECIMALS, fee_basis_points |-> MINT_FEE_BASIS_POINTS,
                max_fee |-> MintMaxFee ]
    /\ now = 0
    /\ txlen = 0
    /\ snap = Accounts
    /\ last = Idle
    /\ eval = NoEval

PoolDoInit ==
    \E pool \in ContractKeys :
        ProcessInit(AdminOf(pool), InitCall(AdminOf(pool), pool, VaultOf(pool)))

PoolDoStake ==
    \E pool \in ContractKeys, amount \in PoolStakeAmounts :
        ProcessStake(User1,
                     StakeCall(PoolAccounts(User1, pool),
                               [ stake_type |-> "LOCKED", amount |-> amount,
                                 lock_duration |-> MinLock ]))

PoolDoUnstake ==
    \E pool \in ContractKeys :
        ProcessUnstake(User1, PoolAccounts(User1, pool))

PoolNext ==
    \/ PoolDoInit
    \/ PoolDoStake
    \/ PoolDoUnstake
    \/ Commit
    \/ Report
    \/ Tick

PoolSpec == PoolInit /\ [][PoolNext]_vars

(***************************************************************************)
(* A vault that holds nothing when Init takes it over.  init reads the      *)
(* token account only to hand its authority to the contract PDA and does    *)
(* not look at its amount, so a pool may start with an empty vault; the     *)
(* instructions are those of Spec.                                          *)
(***************************************************************************)
DryInit ==
    /\ contract = NoAccount(ZeroContractData)
    /\ other = NoAccount(ZeroContractData)
    /\ users = [u \in Users |-> NoAccount(ZeroUserData)]
    /\ tokens = [k \in TokenAccounts |->
                    IF k \in Vaults
                    THEN [ owner |-> IF k = VaultKey THEN AdminKey ELSE OtherAdminKey,
                           mint |-> MintKey, amount |-> 0 ]
                    ELSE [ owner |-> <<k[2]>>, mint |-> MintKey,
                           amount |-> IF k = TokenAccountOf(User1) THEN UserTokens
                                      ELSE OtherUserTokens ]]
    /\ sol = [k \in Signers |->
                    IF k \in {AdminKey, OtherAdminKey} THEN RentFor(CONTRACT_LEN)
                    ELSE UserRentBudget * RentFor(USER_LEN)]
    /\ mint = [ decimals |-> MINT_DECIMALS, fee_basis_points |-> MINT_FEE_BASIS_POINTS,
                max_fee |-> MintMaxFee ]
    /\ now = 0
    /\ txlen = 0
    /\ snap = Accounts
    /\ last = Idle
    /\ eval = NoEval

DrySpec == DryInit /\ [][Next]_vars

(***************************************************************************)
(* The early_withdrawal_fee of Init.  init stores the fee it is given       *)
(* without comparing it with the 1000 it is later divided by; here the      *)
(* admin initializes with a fee below, at or above 1000, User2 stakes       *)
(* LOCKED and leaves before or after the lock.                              *)
(***************************************************************************)
ExcessFee == 1500
EarlyWithdrawalFees == {EarlyWithdrawalFee, FEE_DENOMINATOR, ExcessFee}

ChargeDoInit ==
    \E early_withdrawal_fee \in EarlyWithdrawalFees :
        ProcessInit(AdminKey,
                    [ InitCall(AdminKey, ContractKey, VaultKey) EXCEPT
                        !.early_withdrawal_fee = early_withdrawal_fee ])

ChargeDoStake ==
    \E d \in StakeArgs(User2) :
        ProcessStake(User2, StakeCall(HonestAccounts(User2), d))

ChargeDoUnstake ==
    ProcessUnstake(User2, HonestAccounts(User2))

ChargeNext ==
    \/ ChargeDoInit
    \/ ChargeDoStake
    \/ ChargeDoUnstake
    \/ Commit
    \/ Report
    \/ Tick

ChargeSpec == Init /\ [][ChargeNext]_vars

(***************************************************************************)
(* The accumulators at the width of their words.  total_earned and         *)
(* interest_accrued are u64; the restake branch adds to them with          *)
(* std::ops::Add, which panics on overflow in a build with overflow checks *)
(* and wraps in a build without, the Unstake branches add to total_earned  *)
(* with saturating_add.  The word is scaled down from 64 bits so that its  *)
(* top is in reach.  The interest added is any word: with principal 1000   *)
(* and a year elapsed the accrual expression yields the APY itself, and    *)
(* Init and UpdateAPY accept every APY above 0.                            *)
(***************************************************************************)
\* u64::saturating_add
SaturatingAdd(a, b) == IF a + b > U64Max THEN U64Max ELSE a + b
\* u64 + u64 without overflow checks
WrappingAdd(a, b) == (a + b) % (U64Max + 1)
\* u64 + u64 with overflow checks: whether it panics
AddOverflows(a, b) == a + b > U64Max

\* perform_staking, restake branch: user_data.interest_accrued.add(interest_accrued)
\* and contract_data.total_earned.add(interest_accrued)
RestakeAccrual(user, overflow_checks, interest_accrued) ==
    IF /\ overflow_checks
       /\ \/ AddOverflows(users[user].data.interest_accrued, interest_accrued)
          \/ AddOverflows(contract.data.total_earned, interest_accrued)
    THEN Rejected("AddOverflow")
    ELSE Accepted(
        [ Accounts EXCEPT
            !.users[user].data.interest_accrued = WrappingAdd(@, interest_accrued),
            !.contract.data.total_earned = WrappingAdd(@, interest_accrued) ],
        [ NoInfo EXCEPT !.interest = interest_accrued ])

\* perform_unstake: contract_data.total_earned.saturating_add(interest_accrued)
UnstakeAccrual(interest_accrued) ==
    Accepted(
        [ Accounts EXCEPT
            !.contract.data.total_earned = SaturatingAdd(@, interest_accrued) ],
        [ NoInfo EXCEPT !.interest = interest_accrued ])

\* an initialized contract with one live record in it
WordInit ==
    /\ contract = [ lamports |-> RentFor(CONTRACT_LEN), data_len |-> CONTRACT_LEN,
                    data |-> [ ZeroContractData EXCEPT
                                 !.is_initialized = TRUE,
                                 !.admin_pubkey = AdminKey,
                                 !.stake_token_mint = MintKey,
                                 !.stake_token_account = VaultKey,
                                 !.minimum_stake_amount = 1,
                                 !.normal_staking_apy = 1,
                                 !.locked_staking_apy = 1,
                                 !.total_staked = 1 ] ]
    /\ other = NoAccount(ZeroContractData)
    /\ users = [u \in Users |->
                    IF u = User1
                    THEN [ lamports |-> RentFor(USER_LEN), data_len |-> USER_LEN,
                           data |-> [ ZeroUserData EXCEPT !.is_initialized = TRUE,
                                                          !.owner_pubkey = User1,
                                                          !.total_staked = 1 ] ]
                    ELSE NoAccount(ZeroUserData)]
    /\ tokens = [k \in TokenAccounts |->
                    IF k = VaultKey
                    THEN [ owner |-> ContractKey, mint |-> MintKey, amount |-> 1 ]
                    ELSE IF k = OtherVaultKey
                    THEN [ owner |-> OtherAdminKey, mint |-> MintKey, amount |-> 1 ]
                    ELSE [ owner |-> <<k[2]>>, mint |-> MintKey, amount |-> 1 ]]
    /\ sol = [k \in Signers |-> 0]
    /\ mint = [ decimals |-> MINT_DECIMALS, fee_basis_points |-> 0, max_fee |-> 0 ]
    /\ now = 0
    /\ txlen = 0
    /\ snap = Accounts
    /\ last = Idle
    /\ eval = NoEval

\* an instruction that succeeds is committed; one that panics changes nothing
WordStep(op, user, r) ==
    /\ SetAccounts(r.acc)
    /\ snap' = r.acc
    /\ last' = [ kind |-> "instr", op |-> op, signer |-> user, args |-> NoArgs,
                 ok |-> r.ok, why |-> r.why, info |-> r.info ]
    /\ UNCHANGED <<mint, now, txlen, eval>>

WordRestake ==
    \E overflow_checks \in BOOLEAN, interest_accrued \in 0..U64Max :
        WordStep("Stake", User1, RestakeAccrual(User1, overflow_checks, interest_accrued))

WordUnstake ==
    \E interest_accrued \in 0..U64Max :
        WordStep("UnStake", User1, UnstakeAccrual(interest_accrued))

WordNext ==
    \/ WordRestake
    \/ WordUnstake

WordSpec == WordInit /\ [][WordNext]_vars

(***************************************************************************)
(* Instruction data.  The client's encoding of an instruction              *)
(* (tests/utils.rs), Instruction::unpack, and the arm of Processor::process*)
(* that hands the decoded fields to a handler.  A buffer is a sequence of  *)
(* bytes; array_ref! takes a fixed-length slice of it and panics when the  *)
(* buffer is shorter.                                                      *)
(***************************************************************************)
U64_BYTES == 8
INIT_PAYLOAD == 56
STAKE_PAYLOAD == 25
FEE_CONFIG_PAYLOAD == 16
APY_PAYLOAD == 16

\* the values a u64 field of an instruction takes: one of a single byte, one of two
FieldLow == 1
FieldHigh == 258
FieldValues == {FieldLow, FieldHigh}
\* first bytes that are no tag, and stake_type bytes that are no stake type
UnknownTags == {5, 255}
UnknownStakeTypes == {2, 255}

\* u64::to_le_bytes
RECURSIVE LeBytes(_, _)
LeBytes(v, n) == IF n = 0 THEN <<>> ELSE <<v % 256>> \o LeBytes(v \div 256, n - 1)
ToLeBytes(v) == LeBytes(v, U64_BYTES)

\* u64::from_le_bytes
RECURSIVE FromLeBytes(_)
FromLeBytes(b) == IF b = <<>> THEN 0 ELSE Head(b) + 256 * FromLeBytes(Tail(b))

InvalidInstructionData == [ kind |-> "Err", error |-> "InvalidInstructionData" ]
Panic == [ kind |-> "Panic" ]
Decoded(instruction) == [ kind |-> "Ok", instruction |-> instruction ]

\* array_ref![rest, offset, len]: the slice, where the buffer reaches that far
ArrayRef(rest, offset, len) == SubSeq(rest, offset + 1, offset + len)
\* array_ref![rest, 0, len] indexes past the end of a shorter buffer
OutOfRange(rest, len) == Len(rest) < len

\* Instruction::unpack_u64: input.get(..8), None for a shorter input
UnpackU64Fails(input) == Len(input) < U64_BYTES
UnpackU64(input) == FromLeBytes(SubSeq(input, 1, U64_BYTES))

\* the offsets of the three u64 fields of a Stake payload, after the stake_type byte
\* (variant: decimals and lock_duration read from each other's offset)
StakeFieldsPermuted(rest) ==
    [ amount |-> UnpackU64(ArrayRef(rest, 1, 8)),
      decimals |-> UnpackU64(ArrayRef(rest, 17, 8)),
      lock_duration |-> UnpackU64(ArrayRef(rest, 9, 8)) ]
StakeFields(rest) ==
    [ amount |-> UnpackU64(ArrayRef(rest, 1, 8)),
      decimals |-> UnpackU64(ArrayRef(rest, 9, 8)),
      lock_duration |-> UnpackU64(ArrayRef(rest, 17, 8)) ]

\* Instruction::unpack
Unpack(input) ==
    IF input = <<>> THEN InvalidInstructionData
    ELSE
    LET tag == Head(input)
        rest == Tail(input)
    IN
    IF tag = 0
    THEN IF OutOfRange(rest, INIT_PAYLOAD) THEN Panic
         ELSE Decoded(
            [ tag |-> "Init",
              minimum_stake_amount |-> UnpackU64(ArrayRef(rest, 0, 8)),
              minimum_lock_duration |-> UnpackU64(ArrayRef(rest, 8, 8)),
              normal_staking_apy |-> UnpackU64(ArrayRef(rest, 16, 8)),
              locked_staking_apy |-> UnpackU64(ArrayRef(rest, 24, 8)),
              early_withdrawal_fee |-> UnpackU64(ArrayRef(rest, 32, 8)),
              fee_basis_points |-> UnpackU64(ArrayRef(rest, 40, 8)),
              max_fee |-> UnpackU64(ArrayRef(rest, 48, 8)) ])
    ELSE IF tag = 1
    THEN IF OutOfRange(rest, STAKE_PAYLOAD) THEN Panic
         ELSE IF rest[1] \notin {0, 1} THEN InvalidInstructionData
         ELSE Decoded(
            [ tag |-> "Stake",
              stake_type |-> IF rest[1] = 0 THEN "NORMAL" ELSE "LOCKED",
              amount |-> StakeFields(rest).amount,
              decimals |-> StakeFields(rest).decimals,
              lock_duration |-> StakeFields(rest).lock_duration ])
    ELSE IF tag = 2
    THEN IF UnpackU64Fails(rest) THEN InvalidInstructionData
         ELSE Decoded([ tag |-> "UnStake", decimals |-> UnpackU64(rest) ])
    ELSE IF tag = 3
    THEN IF OutOfRange(rest, FEE_CONFIG_PAYLOAD) THEN Panic
         ELSE Decoded(
            [ tag |-> "ChangeTransferFeeConfig",
              fee_basis_points |-> UnpackU64(ArrayRef(rest, 0, 8)),
              max_fee |-> UnpackU64(ArrayRef(rest, 8, 8)) ])
    ELSE IF tag = 4
    THEN IF OutOfRange(rest, APY_PAYLOAD) THEN Panic
         ELSE Decoded(
            [ tag |-> "UpdateAPY",
              normal_staking_apy |-> UnpackU64(ArrayRef(rest, 0, 8)),
              locked_staking_apy |-> UnpackU64(ArrayRef(rest, 8, 8)) ])
    ELSE InvalidInstructionData

\* the instructions a client encodes
InitInstructions ==
    [ tag : {"Init"}, minimum_stake_amount : FieldValues,
      minimum_lock_duration : FieldValues, normal_staking_apy : FieldValues,
      locked_staking_apy : FieldValues, early_withdrawal_fee : FieldValues,
      fee_basis_points : FieldValues, max_fee : FieldValues ]
StakeInstructions ==
    [ tag : {"Stake"}, stake_type : StakeTypes, amount : FieldValues,
      decimals : FieldValues, lock_duration : FieldValues ]
UnStakeInstructions == [ tag : {"UnStake"}, decimals : FieldValues ]
FeeConfigInstructions ==
    [ tag : {"ChangeTransferFeeConfig"}, fee_basis_points : FieldValues,
      max_fee : FieldValues ]
UpdateApyInstructions ==
    [ tag : {"UpdateAPY"}, normal_staking_apy : FieldValues,
      locked_staking_apy : FieldValues ]
Instructions ==
    InitInstructions \cup StakeInstructions \cup UnStakeInstructions
        \cup FeeConfigInstructions \cup UpdateApyInstructions

\* the instruction data a client builds: the tag, then each field's to_le_bytes
Pack(x) ==
    IF x.tag = "Init"
    THEN <<0>> \o ToLeBytes(x.minimum_stake_amount) \o ToLeBytes(x.minimum_lock_duration)
              \o ToLeBytes(x.normal_staking_apy) \o ToLeBytes(x.locked_staking_apy)
              \o ToLeBytes(x.early_withdrawal_fee) \o ToLeBytes(x.fee_basis_points)
              \o ToLeBytes(x.max_fee)
    ELSE IF x.tag = "Stake"
    THEN <<1, IF x.stake_type = "NORMAL" THEN 0 ELSE 1>> \o ToLeBytes(x.amount)
              \o ToLeBytes(x.decimals) \o ToLeBytes(x.lock_duration)
    ELSE IF x.tag = "UnStake"
    THEN <<2>> \o ToLeBytes(x.decimals)
    ELSE IF x.tag = "ChangeTransferFeeConfig"
    THEN <<3>> \o ToLeBytes(x.fee_basis_points) \o ToLeBytes(x.max_fee)
    ELSE <<4>> \o ToLeBytes(x.normal_staking_apy) \o ToLeBytes(x.locked_staking_apy)

\* Processor::process: the arguments each arm passes, in the order it passes them, and
\* the parameters of the handler's signature, in the order it declares them
NoCall == [ handler |-> "none", params |-> <<>>, args |-> <<>> ]
Dispatch(r) ==
    IF r.kind # "Ok" THEN NoCall
    ELSE
    LET i == r.instruction IN
    IF i.tag = "Init"
    THEN [ handler |-> "init",
           params |-> << "minimum_stake_amount", "minimum_lock_duration",
                         "normal_staking_apy", "locked_staking_apy",
                         "early_withdrawal_fee", "fee_basis_points", "max_fee" >>,
           args |-> << i.minimum_stake_amount, i.minimum_lock_duration,
                       i.normal_staking_apy, i.locked_staking_apy,
                       i.early_withdrawal_fee, i.fee_basis_points, i.max_fee >> ]
    ELSE IF i.tag = "Stake"
    THEN [ handler |-> "stake",
           params |-> << "stake_type", "amount", "lock_duration", "decimals" >>,
           args |-> << i.stake_type, i.amount, i.lock_duration, i.decimals >> ]
    ELSE IF i.tag = "UnStake"
    THEN [ handler |-> "unstake", params |-> << "decimals" >>, args |-> << i.decimals >> ]
    ELSE IF i.tag = "UpdateAPY"
    THEN [ handler |-> "update_apy",
           params |-> << "normal_staking_apy", "locked_staking_apy" >>,
           args |-> << i.normal_staking_apy, i.locked_staking_apy >> ]
    \* no arm for ChangeTransferFeeConfig
    ELSE NoCall

\* buffers no client encoding yields
Truncated ==
    UNION { { SubSeq(Pack(x), 1, n) : n \in 0..(Len(Pack(x)) - 1) } : x \in Instructions }
WithUnknownTag == { <<t>> \o Tail(Pack(x)) : t \in UnknownTags, x \in Instructions }
WithUnknownStakeType ==
    { [ Pack(x) EXCEPT ![2] = b ] : b \in UnknownStakeTypes, x \in StakeInstructions }
Malformed == Truncated \cup WithUnknownTag \cup WithUnknownStakeType

\* Processor::process up to the handler's call
ProcessData(sent, input) ==
    [ of |-> "unpack", sent |-> sent, input |-> input,
      result |-> Unpack(input), call |-> Dispatch(Unpack(input)) ]

ClientSends ==
    /\ eval.of = "none"
    /\ \E x \in Instructions : eval' = ProcessData(<<x>>, Pack(x))
    /\ UNCHANGED <<contract, other, users, tokens, sol, mint, now, txlen, snap, last>>

MalformedArrives ==
    /\ eval.of = "none"
    /\ \E input \in Malformed : eval' = ProcessData(<<>>, input)
    /\ UNCHANGED <<contract, other, users, tokens, sol, mint, now, txlen, snap, last>>

\* the instruction has returned
Returned ==
    /\ eval.of # "none"
    /\ eval' = NoEval
    /\ UNCHANGED <<contract, other, users, tokens, sol, mint, now, txlen, snap, last>>

DecodeNext ==
    \/ ClientSends
    \/ MalformedArrives
    \/ Returned

DecodeSpec == Init /\ [][DecodeNext]_vars

(***************************************************************************)
(* The records as bytes (state.rs).  pack_into_slice writes a record into   *)
(* the first LEN bytes of a buffer, field after field; unpack_from_slice    *)
(* takes a fixed-length slice of the buffer with array_ref!, which indexes  *)
(* past the end of a shorter buffer, and reads the fields back.             *)
(***************************************************************************)
PUBKEY_BYTES == 32
\* the keys a record holds, by the first byte of their 32
KeyTable ==
    << ZeroKey, AdminKey, OtherAdminKey, User1, User2, MintKey, OtherMint, VaultKey,
       OtherVaultKey >>
\* Pubkey::as_ref
PubkeyBytes(key) ==
    << CHOOSE i \in DOMAIN KeyTable : KeyTable[i] = key >>
        \o [ j \in 1..(PUBKEY_BYTES - 1) |-> 0 ]
\* Pubkey::new_from_array
PubkeyFromBytes(b) == KeyTable[b[1]]

\* `as u8` of a bool and of a StakeType
BoolByte(b) == IF b THEN 1 ELSE 0
StakeTypeByte(stake_type) == IF stake_type = "NORMAL" THEN 0 ELSE 1

\* what a buffer holds before a record is packed into it: zeroes, as a created account
\* does, or the bytes of earlier use
StaleByte == 255
Buffers(len) == { [ i \in 1..len |-> 0 ], [ i \in 1..len |-> StaleByte ] }

InvalidAccountData == [ kind |-> "Err", error |-> "InvalidAccountData" ]
Unpacked(data) == [ kind |-> "Ok", data |-> data ]

\* ContractData::pack_into_slice
PackContractData(data, dst) ==
    << BoolByte(data.is_initialized) >>
        \o PubkeyBytes(data.admin_pubkey)
        \o PubkeyBytes(data.stake_token_mint)
        \o PubkeyBytes(data.stake_token_account)
        \o ToLeBytes(data.minimum_stake_amount)
        \o ToLeBytes(data.minimum_lock_duration)
        \o ToLeBytes(data.normal_staking_apy)
        \o ToLeBytes(data.locked_staking_apy)
        \o ToLeBytes(data.early_withdrawal_fee)
        \o ToLeBytes(data.total_staked)
        \o ToLeBytes(data.total_earned)
        \o SubSeq(dst, CONTRACT_LEN + 1, Len(dst))

\* ContractData::unpack_from_slice
UnpackContractData(src) ==
    IF OutOfRange(src, CONTRACT_LEN) THEN Panic
    ELSE IF src[1] \notin {0, 1} THEN InvalidAccountData
    ELSE Unpacked(
        [ is_initialized |-> src[1] = 1,
          admin_pubkey |-> PubkeyFromBytes(ArrayRef(src, 1, 32)),
          stake_token_mint |-> PubkeyFromBytes(ArrayRef(src, 33, 32)),
          stake_token_account |-> PubkeyFromBytes(ArrayRef(src, 65, 32)),
          minimum_stake_amount |-> FromLeBytes(ArrayRef(src, 97, 8)),
          minimum_lock_duration |-> FromLeBytes(ArrayRef(src, 105, 8)),
          normal_staking_apy |-> FromLeBytes(ArrayRef(src, 113, 8)),
          locked_staking_apy |-> FromLeBytes(ArrayRef(src, 121, 8)),
          early_withdrawal_fee |-> FromLeBytes(ArrayRef(src, 129, 8)),
          total_staked |-> FromLeBytes(ArrayRef(src, 137, 8)),
          total_earned |-> FromLeBytes(ArrayRef(src, 145, 8)) ])

\* UserData::pack_into_slice: the stake type is written to the first byte of its eight,
\* the other seven are left as the buffer had them
PackUserData(data, dst) ==
    << BoolByte(data.is_initialized) >>
        \o PubkeyBytes(data.owner_pubkey)
        \o << StakeTypeByte(data.stake_type) >> \o SubSeq(dst, 35, 41)
        \o ToLeBytes(data.lock_duration)
        \o ToLeBytes(data.total_staked)
        \o ToLeBytes(data.interest_accrued)
        \o ToLeBytes(data.stake_ts)
        \o ToLeBytes(data.last_claim_ts)
        \o ToLeBytes(data.last_unstake_ts)
        \o SubSeq(dst, USER_LEN + 1, Len(dst))

\* UserData::unpack_from_slice: array_ref![src, 0, ContractData::LEN], then the fields of
\* a user record
UnpackUserData(src) ==
    IF OutOfRange(src, CONTRACT_LEN) THEN Panic
    ELSE IF src[1] \notin {0, 1} THEN InvalidAccountData
    ELSE IF src[34] \notin {0, 1} THEN InvalidAccountData
    ELSE Unpacked(
        [ is_initialized |-> src[1] = 1,
          total_staked |-> FromLeBytes(ArrayRef(src, 49, 8)),
          owner_pubkey |-> PubkeyFromBytes(ArrayRef(src, 1, 32)),
          stake_type |-> IF src[34] = 0 THEN "NORMAL" ELSE "LOCKED",
          lock_duration |-> FromLeBytes(ArrayRef(src, 41, 8)),
          interest_accrued |-> FromLeBytes(ArrayRef(src, 57, 8)),
          stake_ts |-> FromLeBytes(ArrayRef(src, 65, 8)),
          last_claim_ts |-> FromLeBytes(ArrayRef(src, 73, 8)),
          last_unstake_ts |-> FromLeBytes(ArrayRef(src, 81, 8)) ])

\* the records packed: every field takes two values, or the one the handlers give it
ContractRecords ==
    [ is_initialized : BOOLEAN,
      admin_pubkey : {AdminKey, OtherAdminKey},
      stake_token_mint : {MintKey},
      stake_token_account : {VaultKey},
      minimum_stake_amount : FieldValues,
      minimum_lock_duration : {FieldLow},
      normal_staking_apy : FieldValues,
      locked_staking_apy : {FieldHigh},
      early_withdrawal_fee : {FieldLow},
      total_staked : FieldValues,
      total_earned : FieldValues ]
UserRecords ==
    [ is_initialized : BOOLEAN,
      total_staked : FieldValues,
      owner_pubkey : Users,
      stake_type : StakeTypes,
      lock_duration : FieldValues,
      interest_accrued : {FieldLow},
      stake_ts : FieldValues,
      last_claim_ts : {0},
      last_unstake_ts : {0} ]

\* a contract record is packed into a buffer of ContractData::LEN bytes and unpacked
PackContract ==
    /\ eval.of = "none"
    /\ \E data \in ContractRecords, dst \in Buffers(CONTRACT_LEN) :
          LET buffer == PackContractData(data, dst) IN
          eval' = [ of |-> "ContractData", data |-> data, buffer |-> buffer,
                    result |-> UnpackContractData(buffer) ]
    /\ UNCHANGED <<contract, other, users, tokens, sol, mint, now, txlen, snap, last>>

\* a user record is packed into a buffer of UserData::LEN bytes and unpacked
PackUser ==
    /\ eval.of = "none"
    /\ \E data \in UserRecords, dst \in Buffers(USER_LEN) :
          LET buffer == PackUserData(data, dst) IN
          eval' = [ of |-> "UserData", data |-> data, buffer |-> buffer,
                    result |-> UnpackUserData(buffer) ]
    /\ UNCHANGED <<contract, other, users, tokens, sol, mint, now, txlen, snap, last>>

PackNext ==
    \/ PackContract
    \/ PackUser
    \/ Returned

PackSpec == Init /\ [][PackNext]_vars

(***************************************************************************)
(* The accrual expression at the width of its words:                       *)
(*   ((apy as u128 * total_staked as u128 * stake_duration as u128)        *)
(*        / 31536000000_u128) as u64                                       *)
(* The word (u64) is 0..U64Max and the wide word (u128) has twice its      *)
(* bits.  The product of two words fits the wide word; the product with    *)
(* the third may not, and then the multiplication panics in a build with   *)
(* overflow checks and wraps in one without.  The cast `as u64` keeps the  *)
(* low word of the quotient in either build.                               *)
(***************************************************************************)
U128Max == (U64Max + 1) * (U64Max + 1) - 1
\* 31536000000 at the scale of the word: as there, about the square root of the
\* word's range
YEAR_IN_WORD == 4

Value(v) == [ kind |-> "Ok", value |-> v ]

\* the quotient before it is narrowed, where the product has not overflowed
ExactInterest(apy, total_staked, stake_duration) ==
    (apy * total_staked * stake_duration) \div YEAR_IN_WORD

AccrualExpr(overflow_checks, apy, total_staked, stake_duration) ==
    LET product == apy * total_staked * stake_duration IN
    IF product > U128Max /\ overflow_checks THEN Panic
    ELSE Value(((product % (U128Max + 1)) \div YEAR_IN_WORD) % (U64Max + 1))

Accrual(overflow_checks, apy, total_staked, stake_duration) ==
    [ of |-> "interest", overflow_checks |-> overflow_checks, apy |-> apy,
      total_staked |-> total_staked, stake_duration |-> stake_duration,
      result |-> AccrualExpr(overflow_checks, apy, total_staked, stake_duration) ]

\* a record of any principal under any APY that Init and UpdateAPY accept, just staked
AccrualInit ==
    /\ contract = NoAccount(ZeroContractData)
    /\ other = NoAccount(ZeroContractData)
    /\ users = [u \in Users |-> NoAccount(ZeroUserData)]
    /\ tokens = [k \in TokenAccounts |->
                    [ owner |-> ZeroKey, mint |-> MintKey, amount |-> 0 ]]
    /\ sol = [k \in Signers |-> 0]
    /\ mint = [ decimals |-> MINT_DECIMALS, fee_basis_points |-> 0, max_fee |-> 0 ]
    /\ now = 0
    /\ txlen = 0
    /\ snap = Accounts
    /\ last = Idle
    /\ \E overflow_checks \in BOOLEAN, apy \in 1..U64Max, total_staked \in 0..U64Max :
          eval = Accrual(overflow_checks, apy, total_staked, 0)

\* the clock advances and the expression is evaluated again
Elapse ==
    /\ eval.stake_duration < U64Max
    /\ eval' = Accrual(eval.overflow_checks, eval.apy, eval.total_staked,
                       eval.stake_duration + 1)
    /\ UNCHANGED <<contract, other, users, tokens, sol, mint, now, txlen, snap, last>>

AccrualNext == Elapse

AccrualSpec == AccrualInit /\ [][AccrualNext]_vars

(***************************************************************************)
(* The order of a handler's steps: the checks it makes and the external    *)
(* calls it invokes (create_account, set_authority, the token transfer),   *)
(* each named by the error the instruction returns when the step fails, in *)
(* the order of the handler's statements.                                  *)
(***************************************************************************)
Check(why) == [ kind |-> "check", why |-> why ]
Call(why) == [ kind |-> "call", why |-> why ]

\* Processor::init
InitOrder ==
    << Check("MissingRequiredSignature"), Check("ZeroMinimumStake"), Check("PdaMismatch"),
       Call("CreateAccountFailed"), Call("SetAuthorityFailed"),
       Check("AccountAlreadyInitialized") >>

\* Processor::stake and Processor::unstake, up to perform_staking and perform_unstake
AccountsOrder ==
    << Check("UnpackFailed"), Check("MissingRequiredSignature"),
       Check("InvalidUserTokenAccount"), Check("InvalidUserTokenMint"),
       Check("InsufficientFunds"), Check("InvalidContractDataAccount"),
       Check("InvalidContractTokenAccount"), Check("InvalidContractTokenMint"),
       Check("InvalidContractTokenOwner") >>

\* Processor::stake, then Processor::perform_staking: for a LOCKED stake the lock is
\* checked; an account without data is created; a record that is initialized is a restake
StakeOrder(locked, create, first) ==
    AccountsOrder
        \o (IF locked THEN << Check("LockDurationBelowMinimum") >> ELSE <<>>)
        \o << Check("UserPdaMismatch") >>
        \o (IF create THEN << Call("CreateAccountFailed") >> ELSE <<>>)
        \o (IF first THEN <<>> ELSE << Check("StakeTypeMismatch") >>)
        \o << Call("TransferFailed") >>

\* Processor::unstake, then Processor::perform_unstake
UnstakeOrder(normal) ==
    AccountsOrder
        \o << Check("UserPdaMismatch") >>
        \o (IF normal THEN << Check("MinimumHold") >>
            ELSE << Check("ChargeAbovePrincipal") >>)
        \o << Call("TransferFailed") >>

\* Processor::update_apy
UpdateApyOrder ==
    << Check("MissingRequiredSignature"), Check("InvalidApy"), Check("UnpackFailed"),
       Check("NotAdmin") >>

\* the steps an execution went through: all of them when it returned Ok, and otherwise
\* those up to the step that failed
RECURSIVE UpTo(_, _)
UpTo(order, why) ==
    IF order = <<>> THEN <<>>
    ELSE IF Head(order).why = why THEN << Head(order) >>
    ELSE << Head(order) >> \o UpTo(Tail(order), why)
StepsRun(order, ok, why) == IF ok THEN order ELSE UpTo(order, why)

\* the external calls performed: of the steps run, the calls that did not fail
Performed(steps, ok, n) == steps[n].kind = "call" /\ (ok \/ n < Len(steps))

(***************************************************************************)
(* Vocabulary of the properties.  A step that runs an instruction leaves   *)
(* in last' which instruction it was, who signed it, whether it returned   *)
(* Ok and what it logged; the unprimed variables are the accounts the      *)
(* instruction found.                                                      *)
(***************************************************************************)
Ran(op, user) == last'.kind = "instr" /\ last'.op = op /\ last'.signer = user
Succeeded(op, user) == Ran(op, user) /\ last'.ok
JustRan(op, user) == last.kind = "instr" /\ last.op = op /\ last.signer = user

\* no transaction is open: the accounts are the committed ones
Committed == last.kind # "instr"

\* the user has a record that a later transaction can read
Live(u) == users[u].data_len # 0 /\ users[u].lamports > 0 /\ users[u].data.is_initialized

\* the record's lamports are gone, its bytes still there: the state Unstake leaves it
\* in until the transaction commits
Drained(u) == users[u].data_len # 0 /\ users[u].lamports = 0

\* the wallet has paid for a record and the record's lamports are gone: it has unstaked
HasUnstaked(u) == sol[u] < UserRentBudget * RentFor(USER_LEN) /\ users[u].lamports = 0

RECURSIVE SumLiveStaked(_)
SumLiveStaked(S) ==
    IF S = {} THEN 0
    ELSE LET u == CHOOSE x \in S : TRUE
         IN  (IF Live(u) THEN users[u].data.total_staked ELSE 0) + SumLiveStaked(S \ {u})

\* the APY the contract record holds for a stake type
ApyOf(stake_type) ==
    IF stake_type = "NORMAL" THEN contract.data.normal_staking_apy
    ELSE contract.data.locked_staking_apy

\* what leaves the vault for a payout: the payout and the 9% the handler adds to it
WithPayoutFee(amount_out) == amount_out + (PAYOUT_FEE_PERCENT * amount_out) \div 100

(***************************************************************************)
(* C1.  Whenever no transaction is open, an initialized contract record's  *)
(* total_staked equals the sum of total_staked over the live user records. *)
(***************************************************************************)
C1_TotalStakedIsSumOfLive ==
    (Committed /\ contract.data.is_initialized)
        => contract.data.total_staked = SumLiveStaked(Users)

(***************************************************************************)
(* C2.  No instruction decreases total_earned, and no transaction commits  *)
(* a total_earned below the one it started from.  (It holds of Spec, where *)
(* no sum comes near the width of the word, and fails of WordSpec.)        *)
(***************************************************************************)
C2_TotalEarnedNeverDecreases ==
    [][ /\ last'.kind = "instr"
            => contract'.data.total_earned >= contract.data.total_earned
        /\ last'.kind = "commit"
            => contract'.data.total_earned >= snap.contract.data.total_earned ]_vars

(***************************************************************************)
(* C3.  A successful Stake of amount a by a user who has no record creates *)
(* the record with is_initialized, owner = the signer, the requested stake *)
(* type, total_staked = a, interest_accrued = 0 and stake_ts = now; the    *)
(* contract's total_staked grows by exactly a, its total_earned stays.     *)
(***************************************************************************)
C3_FirstStake ==
    [][ \A u \in Users :
          (Succeeded("Stake", u) /\ users[u].data_len = 0) =>
            /\ users'[u].data_len = USER_LEN
            /\ users'[u].data.is_initialized
            /\ users'[u].data.owner_pubkey = u
            /\ users'[u].data.stake_type = last'.info.stake_type
            /\ users'[u].data.total_staked = last'.info.amount
            /\ users'[u].data.interest_accrued = 0
            /\ users'[u].data.stake_ts = now
            /\ contract'.data.total_staked = contract.data.total_staked + last'.info.amount
            /\ contract'.data.total_earned = contract.data.total_earned ]_vars

\* a first stake has created a record next to another staker's, at a time after 0
C3_Witness ==
    \E u \in Users :
        /\ JustRan("Stake", u) /\ last.ok /\ last.info.first
        /\ Live(u) /\ users[u].data.total_staked = last.info.amount
        /\ last.info.amount > 0 /\ now > 0
        /\ contract.data.total_staked > last.info.amount

(***************************************************************************)
(* C4.  A successful restake of amount a at time now on a live record with *)
(* principal p and timestamp s adds floor(r * p * (now - s) / year) to the *)
(* record's interest_accrued and to the contract's total_earned, r being   *)
(* the contract's APY for the record's stake type; it adds a to both       *)
(* total_staked and sets stake_ts = now.  The interest is on p, not p + a. *)
(***************************************************************************)
C4_Restake ==
    [][ \A u \in Users :
          (Succeeded("Stake", u) /\ Live(u)) =>
            LET p == users[u].data.total_staked
                s == users[u].data.stake_ts
                r == ApyOf(users[u].data.stake_type)
                a == last'.info.amount
                i == (r * p * (now - s)) \div YEAR_IN_SECONDS_SCALED
            IN  /\ users'[u].data.interest_accrued = users[u].data.interest_accrued + i
                /\ contract'.data.total_earned = contract.data.total_earned + i
                /\ users'[u].data.total_staked = p + a
                /\ contract'.data.total_staked = contract.data.total_staked + a
                /\ users'[u].data.stake_ts = now ]_vars

\* a restake has added positive interest and a positive amount to a live record
C4_Witness ==
    \E u \in Users :
        /\ JustRan("Stake", u) /\ last.ok /\ ~last.info.first /\ Live(u)
        /\ last.info.interest > 0
        /\ users[u].data.interest_accrued >= last.info.interest
        /\ users[u].data.total_staked > last.info.amount
        /\ users[u].data.stake_ts = now

C6_MaturedExit ==
    [][ \A u \in Users :
          ( /\ Succeeded("UnStake", u)
            /\ \/ /\ users[u].data.stake_type = "LOCKED"
                  /\ now - users[u].data.stake_ts >= users[u].data.lock_duration
               \/ /\ users[u].data.stake_type = "NORMAL"
                  /\ now - users[u].data.stake_ts >= MIN_NORMAL_HOLD ) =>
            LET p == users[u].data.total_staked
                i == (ApyOf(users[u].data.stake_type) * p * (now - users[u].data.stake_ts))
                        \div YEAR_IN_SECONDS_SCALED
                payout == p + users[u].data.interest_accrued + i
            IN  /\ last'.info.amount_out = payout
                /\ tokens[VaultKey].amount - tokens'[VaultKey].amount
                       = WithPayoutFee(payout)
                /\ contract'.data.total_earned = contract.data.total_earned + i ]_vars

\* a matured exit has paid principal, stored interest and new interest, all positive
C6_Witness ==
    \E u \in Users :
        /\ JustRan("UnStake", u) /\ last.ok /\ Drained(u)
        /\ last.info.interest > 0
        /\ users[u].data.interest_accrued > 0
        /\ last.info.amount_out
              = users[u].data.total_staked + users[u].data.interest_accrued
                    + last.info.interest

(***************************************************************************)
(* C7.  An Unstake of a NORMAL record before the minimum hold has elapsed  *)
(* returns an error and changes no user record, not the contract record,   *)
(* and no token balance.                                                   *)
(***************************************************************************)
C7_NormalHold ==
    [][ \A u \in Users :
          ( /\ Ran("UnStake", u)
            /\ users[u].data_len # 0
            /\ users[u].data.stake_type = "NORMAL"
            /\ now - users[u].data.stake_ts < MIN_NORMAL_HOLD ) =>
            /\ ~last'.ok
            /\ users' = users
            /\ contract' = contract
            /\ tokens' = tokens ]_vars

\* the hold check has refused the Unstake of a live NORMAL record
C7_Witness ==
    \E u \in Users :
        /\ JustRan("UnStake", u) /\ ~last.ok /\ last.why = "MinimumHold"
        /\ Live(u) /\ users[u].data.stake_type = "NORMAL"
        /\ now - users[u].data.stake_ts < MIN_NORMAL_HOLD

(***************************************************************************)
(* C8.  A successful Unstake moves all lamports of the user's record to    *)
(* the contract record's account and takes exactly the record's principal  *)
(* off the contract's total_staked; once its transaction has committed,    *)
(* the record is gone.                                                     *)
(***************************************************************************)
C8_UnstakeClosesRecord ==
    [][ \A u \in Users :
          /\ Succeeded("UnStake", u) =>
                /\ users'[u].lamports = 0
                /\ contract'.lamports = contract.lamports + users[u].lamports
                /\ contract'.data.total_staked
                       = contract.data.total_staked - users[u].data.total_staked
          /\ (last'.kind = "commit" /\ last'.ok /\ Drained(u)) =>
                users'[u] = NoAccount(ZeroUserData) ]_vars

(***************************************************************************)
(* C9.  A successful Stake of amount a by a user who has unstaked leaves a *)
(* record as a first stake does: total_staked = a, interest_accrued = 0,   *)
(* is_initialized, owner = the signer, the stake type of this Stake and,   *)
(* for a LOCKED stake, its lock_duration.                                  *)
(***************************************************************************)
C9_StakeAfterUnstakeIsFirst ==
    [][ \A u \in Users :
          (Succeeded("Stake", u) /\ HasUnstaked(u)) =>
            /\ users'[u].data.is_initialized
            /\ users'[u].data.owner_pubkey = u
            /\ users'[u].data.total_staked = last'.info.amount
            /\ users'[u].data.interest_accrued = 0
            /\ users'[u].data.stake_type = last'.info.stake_type
            /\ last'.info.stake_type = "LOCKED"
                  => users'[u].data.lock_duration = last'.info.lock_duration ]_vars

(***************************************************************************)
(* C10.  An Init against an initialized contract record returns an error   *)
(* and leaves the record's account, every field of it, as it was.          *)
(***************************************************************************)
C10_InitOnce ==
    [][ (Ran("Init", AdminKey) /\ contract.data.is_initialized) =>
            /\ ~last'.ok
            /\ contract' = contract ]_vars

\* an Init that passed its own checks has been refused on a contract with stakes in it
C10_Witness ==
    /\ JustRan("Init", AdminKey) /\ ~last.ok /\ last.why = "CreateAccountFailed"
    /\ contract.data.is_initialized
    /\ contract.data.total_staked > 0

(***************************************************************************)
(* C11.  After a successful Init, the contract record read back has        *)
(* is_initialized, admin = the signer, the supplied mint and token         *)
(* account, the seven supplied parameters as given, total_staked = 0 and   *)
(* total_earned = 0, and the token account's authority is the record's     *)
(* derived address.                                                        *)
(***************************************************************************)
\* everything of it but the two fee parameters
InitWroteRecord(admin, a, d) ==
    /\ d.is_initialized
    /\ d.admin_pubkey = admin
    /\ d.stake_token_mint = a.mint_key
    /\ d.stake_token_account = a.contract_token_account
    /\ d.minimum_stake_amount = a.minimum_stake_amount
    /\ d.minimum_lock_duration = a.minimum_lock_duration
    /\ d.normal_staking_apy = a.normal_staking_apy
    /\ d.locked_staking_apy = a.locked_staking_apy
    /\ d.early_withdrawal_fee = a.early_withdrawal_fee
    /\ d.total_staked = 0
    /\ d.total_earned = 0
    /\ tokens'[a.contract_token_account].owner = ContractPda(admin, a.mint_key)

C11_InitWritesRecord ==
    [][ Succeeded("Init", AdminKey) =>
            /\ InitWroteRecord(AdminKey, last'.args, contract'.data)
            /\ "fee_basis_points" \in DOMAIN contract'.data
            /\ contract'.data.fee_basis_points = last'.args.fee_basis_points
            /\ "max_fee" \in DOMAIN contract'.data
            /\ contract'.data.max_fee = last'.args.max_fee ]_vars

(***************************************************************************)
(* C12.  An UpdateAPY whose caller is not the admin stored in the contract *)
(* record, or has not signed, returns an error and leaves the contract     *)
(* record as it was.                                                       *)
(***************************************************************************)
C12_UpdateApyAdminOnly ==
    [][ \A a \in Signers :
          ( /\ Ran("UpdateAPY", a)
            /\ contract.data.is_initialized
            /\ a # contract.data.admin_pubkey \/ ~last'.args.is_signer ) =>
            /\ ~last'.ok
            /\ contract' = contract ]_vars

\* another wallet's signed UpdateAPY has been refused for not being the admin's
C12_Witness ==
    /\ JustRan("UpdateAPY", User1) /\ last.args.is_signer
    /\ last.args.contract_data_account = ContractKey
    /\ ~last.ok /\ last.why = "NotAdmin"
    /\ contract.data.is_initialized /\ contract.data.admin_pubkey = AdminKey

(***************************************************************************)
(* C13.  A successful UpdateAPY(n, l) leaves normal_staking_apy = n and    *)
(* locked_staking_apy = l in the contract record and changes no other      *)
(* field of it, no user record and no token account.                       *)
(***************************************************************************)
C13_UpdateApyFrame ==
    [][ \A a \in Signers :
          Succeeded("UpdateAPY", a) =>
            /\ contract'.data =
                  [ contract.data EXCEPT
                      !.normal_staking_apy = last'.args.normal_staking_apy,
                      !.locked_staking_apy = last'.args.locked_staking_apy ]
            /\ contract'.lamports = contract.lamports
            /\ contract'.data_len = contract.data_len
            /\ users' = users
            /\ tokens' = tokens ]_vars

\* the APYs have been replaced in a contract with a stake and earned interest in it
C13_Witness ==
    /\ JustRan("UpdateAPY", AdminKey) /\ last.ok
    /\ contract.data.normal_staking_apy = NewNormalApy
    /\ contract.data.locked_staking_apy = NewLockedApy
    /\ contract.data.total_staked > 0
    /\ contract.data.total_earned > 0
    /\ \E u \in Users : Live(u)

(***************************************************************************)
(* C14.  A ChangeTransferFeeConfig instruction signed by the admin of an   *)
(* initialized contract record is accepted, and the record's               *)
(* fee_basis_points and max_fee are then the values of the instruction.    *)
(***************************************************************************)
C14_ChangeTransferFeeConfig ==
    [][ ( /\ Ran("ChangeTransferFeeConfig", AdminKey)
          /\ last'.args.is_signer
          /\ last'.args.contract_data_account = ContractKey
          /\ contract.data.is_initialized
          /\ contract.data.admin_pubkey = AdminKey ) =>
            /\ last'.ok
            /\ "fee_basis_points" \in DOMAIN contract'.data
            /\ contract'.data.fee_basis_points = last'.args.fee_basis_points
            /\ "max_fee" \in DOMAIN contract'.data
            /\ contract'.data.max_fee = last'.args.max_fee ]_vars

(***************************************************************************)
(* C15.  A Stake on a record that is initialized, asking for another stake *)
(* type than the record stores, returns an error, and not the error of a   *)
(* token transfer: no record and no token balance changes.  The stake type *)
(* a record stores stays the same for as long as the record exists.        *)
(***************************************************************************)
C15_RestakeTypeMismatch ==
    [][ \A u \in Users :
          /\ ( /\ Ran("Stake", u)
               /\ users[u].data_len # 0
               /\ users[u].data.is_initialized
               /\ last'.args.stake_type # users[u].data.stake_type ) =>
                 /\ ~last'.ok
                 /\ last'.why # "TransferFailed"
                 /\ users' = users
                 /\ contract' = contract
                 /\ tokens' = tokens
          /\ (users[u].data_len # 0 /\ users'[u].data_len # 0) =>
                 users'[u].data.stake_type = users[u].data.stake_type ]_vars

\* the type check has refused a restake that the wallet could not have paid for either
C15_Witness ==
    \E u \in Users :
        /\ JustRan("Stake", u) /\ ~last.ok /\ last.why = "StakeTypeMismatch"
        /\ Live(u)
        /\ last.args.stake_type # users[u].data.stake_type
        /\ tokens[TokenAccountOf(u)].amount < last.args.amount

(***************************************************************************)
(* C16.  A LOCKED Stake, first stake or restake, whose lock_duration is    *)
(* below the contract's minimum_lock_duration returns an error and changes *)
(* nothing; every live LOCKED record has a lock_duration of at least the   *)
(* contract's minimum_lock_duration.                                       *)
(***************************************************************************)
C16_LockAtLeastMinimum ==
    [][ \A u \in Users :
          /\ ( /\ Ran("Stake", u)
               /\ last'.args.contract_data_account = ContractKey
               /\ contract.data.is_initialized
               /\ last'.args.stake_type = "LOCKED"
               /\ last'.args.lock_duration < contract.data.minimum_lock_duration ) =>
                 /\ ~last'.ok
                 /\ users' = users
                 /\ contract' = contract
                 /\ tokens' = tokens
          /\ (users'[u].data_len # 0 /\ users'[u].data.is_initialized
                 /\ users'[u].data.stake_type = "LOCKED") =>
                 users'[u].data.lock_duration >= contract'.data.minimum_lock_duration
       ]_vars

\* the lock check has refused the restake of a live LOCKED record
C16_Witness ==
    \E u \in Users :
        /\ JustRan("Stake", u) /\ ~last.ok /\ last.why = "LockDurationBelowMinimum"
        /\ last.args.stake_type = "LOCKED"
        /\ last.args.lock_duration < contract.data.minimum_lock_duration
        /\ Live(u) /\ users[u].data.stake_type = "LOCKED"
        /\ users[u].data.lock_duration >= contract.data.minimum_lock_duration

(***************************************************************************)
(* C17.  On a successful Unstake the user's token account receives, after  *)
(* the token program has withheld its transfer fee from what the vault     *)
(* sent, exactly the payout the handler computed.                          *)
(***************************************************************************)
C17_NetEqualsPayout ==
    [][ \A u \in Users :
          Succeeded("UnStake", u) =>
            tokens'[last'.args.user_token_account].amount
                - tokens[last'.args.user_token_account].amount
              = last'.info.amount_out ]_vars

(***************************************************************************)
(* C18.  A user record belongs to one contract record: principal staked    *)
(* against one pool is not folded into a restake against another pool and  *)
(* is not paid out of the other pool's vault.  With one staker, as in      *)
(* PoolSpec: a Stake or an Unstake against a pool that succeeds on a live  *)
(* record finds all of the record's principal in that pool's total_staked. *)
(***************************************************************************)
C18_RecordOfOnePool ==
    [][ \A u \in Users, pool \in ContractKeys :
          ( /\ Succeeded("Stake", u) \/ Succeeded("UnStake", u)
            /\ last'.args.contract_data_account = pool
            /\ Live(u) ) =>
            users[u].data.total_staked <= ContractAt(pool).data.total_staked ]_vars

(***************************************************************************)
(* C19.  No Stake that succeeds, first stake or restake, deposits less     *)
(* than the minimum_stake_amount of the contract it is made against; a     *)
(* Stake of amount 0 does not succeed.                                     *)
(***************************************************************************)
C19_StakeAtLeastMinimum ==
    [][ \A u \in Users, pool \in ContractKeys :
          (Succeeded("Stake", u) /\ last'.args.contract_data_account = pool) =>
            /\ last'.args.amount >= ContractAt(pool).data.minimum_stake_amount
            /\ last'.args.amount > 0 ]_vars

SetAtInit(c) ==
    << c.is_initialized, c.admin_pubkey, c.stake_token_mint, c.stake_token_account,
       c.minimum_stake_amount, c.minimum_lock_duration, c.early_withdrawal_fee >>

C21_SetOnceAtInit ==
    [][ \A pool \in ContractKeys :
          /\ (\E s \in Signers :
                  Ran("Stake", s) \/ Ran("UnStake", s) \/ Ran("UpdateAPY", s)) =>
                SetAtInit(ContractAt(pool).data)' = SetAtInit(ContractAt(pool).data)
          /\ (ContractAt(pool).data_len # 0 /\ ContractAt(pool)'.data_len # 0) =>
                SetAtInit(ContractAt(pool).data)' = SetAtInit(ContractAt(pool).data) ]_vars

\* every field that may change has changed since Init, and the others are as Init set them
C21_Witness ==
    /\ Committed
    /\ contract.data.normal_staking_apy # InitNormalApy
    /\ contract.data.locked_staking_apy # InitLockedApy
    /\ contract.data.total_staked > 0
    /\ contract.data.total_earned > 0
    /\ SetAtInit(contract.data)
          = << TRUE, AdminKey, MintKey, VaultKey, MinStake, MinLock, EarlyWithdrawalFee >>

(***************************************************************************)
(* C22.  Instruction::unpack returns InvalidInstructionData, and ends in   *)
(* no other way, for every malformed buffer: the empty one, one whose      *)
(* first byte is no tag, one shorter than the payload of its tag, and a    *)
(* Stake whose stake_type byte is neither 0 nor 1.                         *)
(***************************************************************************)
C22_MalformedIsInvalidInstructionData ==
    (eval.of = "unpack" /\ eval.input \in Malformed) =>
        eval.result = InvalidInstructionData

C24_InterestMonotone ==
    [][ /\ eval.stake_duration = 0 => eval.result = Value(0)
        /\ ( /\ eval'.apy = eval.apy /\ eval'.total_staked = eval.total_staked
             /\ eval'.stake_duration >= eval.stake_duration
             /\ eval.result.kind = "Ok" /\ eval'.result.kind = "Ok" ) =>
               eval'.result.value >= eval.result.value ]_vars

(***************************************************************************)
(* C25.  The accrual never wraps: the value it yields is the quotient      *)
(* floor(apy * principal * elapsed / year) where that fits the word, and   *)
(* where it does not the value is the word's maximum (saturating) or the   *)
(* instruction fails (checked).                                            *)
(***************************************************************************)
C25_AccrualNeverWraps ==
    eval.result.kind = "Ok" =>
        LET exact == ExactInterest(eval.apy, eval.total_staked, eval.stake_duration) IN
        eval.result.value = IF exact > U64Max THEN U64Max ELSE exact

(***************************************************************************)
(* C26.  In Init, Stake, Unstake and UpdateAPY every check of the          *)
(* operation is evaluated before the operation's first external call       *)
(* (account creation, authority transfer, token transfer): no step of an   *)
(* execution is a check that comes after an external call it performed.    *)
(***************************************************************************)
OrderOfLast ==
    LET u == last'.signer IN
    IF last'.op = "Init" THEN InitOrder
    ELSE IF last'.op = "Stake"
    THEN StakeOrder(last'.args.stake_type = "LOCKED",
                    users[u].data_len = 0,
                    users[u].data_len = 0 \/ ~users[u].data.is_initialized)
    ELSE IF last'.op = "UnStake"
    THEN UnstakeOrder(users[u].data.stake_type = "NORMAL")
    ELSE IF last'.op = "UpdateAPY" THEN UpdateApyOrder
    ELSE <<>>

C26_ChecksBeforeCalls ==
    [][ last'.kind = "instr" =>
          LET steps == StepsRun(OrderOfLast, last'.ok, last'.why) IN
          \A i, j \in 1..Len(steps) :
              (i < j /\ Performed(steps, last'.ok, i)) => steps[j].kind # "check" ]_vars

(***************************************************************************)
(* C27.  Principal is paid out once per stake cycle: an Unstake that       *)
(* follows a successful Unstake of the same user, with no Stake of that    *)
(* user in between, pays nothing, also when it is the next instruction of  *)
(* the same transaction.                                                   *)
(***************************************************************************)
C27_PaidOncePerCycle ==
    [][ \A u \in Users :
          (JustRan("UnStake", u) /\ last.ok /\ Ran("UnStake", u)) =>
            /\ last'.ok => last'.info.gross = 0
            /\ tokens'[TokenAccountOf(u)].amount = tokens[TokenAccountOf(u)].amount
            /\ tokens'[VaultKey].amount = tokens[VaultKey].amount ]_vars

(***************************************************************************)
(* C28.  A Stake or an Unstake succeeds only if its user S signed it and   *)
(* the user data account supplied is the address derived from              *)
(* ("spl_staking_user", S); the owner stored in a record is the wallet     *)
(* its address derives from; and an instruction of S leaves the record and *)
(* the tokens of every other user as they were.                            *)
(***************************************************************************)
C28_OwnRecordOnly ==
    [][ \A s \in Users :
          /\ (Succeeded("Stake", s) \/ Succeeded("UnStake", s)) =>
                /\ last'.args.is_signer
                /\ last'.args.user_data_account = UserPda(s)
                /\ users'[s].data.owner_pubkey = s
          /\ (Ran("Stake", s) \/ Ran("UnStake", s)) =>
                \A u \in Users \ {s} :
                    /\ users'[u] = users[u]
                    /\ tokens'[TokenAccountOf(u)] = tokens[TokenAccountOf(u)]
          /\ users[s].data_len # 0 => users[s].data.owner_pubkey = s ]_vars

\* an Unstake of one user with the live record of the other has been refused
C28_Witness ==
    \E s \in Users :
        /\ JustRan("UnStake", s) /\ ~last.ok /\ last.why = "UserPdaMismatch"
        /\ last.args.is_signer
        /\ last.args.user_data_account = UserPda(OtherUser(s))
        /\ Live(OtherUser(s))

(***************************************************************************)
(* C29.  A Stake or an Unstake that succeeds moves tokens only between the *)
(* vault stored in the contract record, which the contract's derived       *)
(* address owns and which is of the contract's mint, and a token account   *)
(* of the contract's mint that the signer owns; one that supplies another  *)
(* vault or another user token account returns an error and changes        *)
(* nothing.                                                                *)
(***************************************************************************)
C29_TransfersBetweenVaultAndSigner ==
    [][ \A s \in Users, pool \in ContractKeys :
          LET vault == last'.args.contract_token_account
              wallet == last'.args.user_token_account
              contract_data == ContractAt(pool).data
          IN
          ( /\ Ran("Stake", s) \/ Ran("UnStake", s)
            /\ last'.args.contract_data_account = pool
            /\ ContractAt(pool).data_len # 0 ) =>
            /\ last'.ok =>
                  /\ vault = contract_data.stake_token_account
                  /\ tokens[vault].owner = pool
                  /\ tokens[vault].mint = contract_data.stake_token_mint
                  /\ tokens[wallet].owner = s
                  /\ tokens[wallet].mint = contract_data.stake_token_mint
                  /\ \A k \in TokenAccounts \ {vault, wallet} : tokens'[k] = tokens[k]
            /\ ( \/ vault # contract_data.stake_token_account
                 \/ tokens[wallet].owner # s
                 \/ tokens[wallet].mint # contract_data.stake_token_mint ) =>
                  /\ ~last'.ok
                  /\ users' = users /\ tokens' = tokens /\ sol' = sol
                  /\ contract' = contract /\ other' = other ]_vars

\* an Unstake that named another user's token account for the payout has been refused
C29_Witness ==
    \E s \in Users :
        /\ JustRan("UnStake", s) /\ ~last.ok /\ last.why = "InvalidUserTokenAccount"
        /\ last.args.user_token_account = TokenAccountOf(OtherUser(s))
        /\ Live(s)
        /\ tokens[VaultKey].owner = ContractKey

(***************************************************************************)
(* C30.  A restake starts the hold and the lock anew: a successful restake *)
(* at time t stores stake_ts = t and, for a LOCKED record, the             *)
(* lock_duration it was given; and an Unstake is measured from the stored  *)
(* stake_ts alone: of a NORMAL record it is rejected before stake_ts plus  *)
(* the minimum hold, of a LOCKED record it is paid as an early exit before *)
(* stake_ts + lock_duration, however long ago the first stake was made.    *)
(***************************************************************************)
C30_RestakeRebasesClock ==
    [][ \A u \in Users :
          /\ ( /\ Succeeded("Stake", u)
               /\ users[u].data_len # 0 /\ users[u].data.is_initialized ) =>
                 /\ users'[u].data.stake_ts = now
                 /\ last'.args.stake_type = "LOCKED" =>
                       users'[u].data.lock_duration = last'.args.lock_duration
          /\ ( /\ Ran("UnStake", u)
               /\ users[u].data_len # 0
               /\ users[u].data.stake_type = "NORMAL"
               /\ now < users[u].data.stake_ts + MIN_NORMAL_HOLD ) =>
                 ~last'.ok /\ tokens' = tokens
          /\ ( /\ Succeeded("UnStake", u)
               /\ users[u].data.stake_type = "LOCKED"
               /\ now < users[u].data.stake_ts + users[u].data.lock_duration ) =>
                 last'.info.amount_out =
                     users[u].data.total_staked
                       - EarlyUnstakeCharge(contract.data.early_withdrawal_fee,
                                            users[u].data.total_staked) ]_vars

\* a NORMAL record held for the minimum hold was restaked, and its Unstake is refused
C30_Witness ==
    \E u \in Users :
        /\ JustRan("UnStake", u) /\ ~last.ok /\ last.why = "MinimumHold"
        /\ Live(u) /\ users[u].data.stake_type = "NORMAL"
        /\ users[u].data.interest_accrued > 0
        /\ users[u].data.stake_ts = now
        /\ now >= MIN_NORMAL_HOLD

(***************************************************************************)
(* C31.  A successful restake overwrites the record's lock_duration with    *)
(* the value this Stake used: the lock_duration of the instruction for a    *)
(* LOCKED restake, shorter or longer than the stored one, and 0 for a       *)
(* NORMAL restake, whatever lock_duration the instruction carried.          *)
(***************************************************************************)
C31_RestakeOverwritesLock ==
    [][ \A u \in Users :
          ( /\ Succeeded("Stake", u)
            /\ users[u].data_len # 0 /\ users[u].data.is_initialized ) =>
              users'[u].data.lock_duration =
                  IF last'.args.stake_type = "LOCKED" THEN last'.args.lock_duration
                  ELSE 0 ]_vars

\* a NORMAL record was restaked by a Stake that carried a lock_duration, and holds 0
C31_Witness ==
    \E u \in Users :
        /\ JustRan("Stake", u) /\ last.ok
        /\ last.args.stake_type = "NORMAL" /\ last.args.lock_duration > 0
        /\ Live(u) /\ users[u].data.total_staked > last.args.amount
        /\ users[u].data.lock_duration = 0

(***************************************************************************)
(* C32.  The interest of an accrual is computed with the APY the contract   *)
(* record holds when the restake or Unstake runs, over the whole interval   *)
(* now - stake_ts: after an UpdateAPY the next accrual of a record uses the *)
(* new APY for all of its interval, the part before the update included.    *)
(***************************************************************************)
C32_AccrualUsesCurrentApy ==
    [][ \A u \in Users :
          LET d == users[u].data
              matured == d.stake_type = "NORMAL" \/ now - d.stake_ts >= d.lock_duration
              whole == (ApyOf(d.stake_type) * d.total_staked * (now - d.stake_ts))
                          \div YEAR_IN_SECONDS_SCALED
          IN
          /\ ( /\ Succeeded("Stake", u)
               /\ users[u].data_len # 0 /\ d.is_initialized ) =>
                 /\ last'.info.interest = whole
                 /\ users'[u].data.interest_accrued = d.interest_accrued + whole
          /\ ( Succeeded("UnStake", u) /\ matured ) =>
                 /\ last'.info.interest = whole
                 /\ last'.info.amount_out = d.total_staked + d.interest_accrued + whole
       ]_vars

\* a record staked under the APY of Init leaves under the APY of an UpdateAPY, and its
\* whole interval is paid at the new one
C32_Witness ==
    \E u \in Users :
        LET d == users[u].data IN
        /\ JustRan("UnStake", u) /\ last.ok
        /\ contract.data.normal_staking_apy = NewNormalApy
        /\ contract.data.locked_staking_apy = NewLockedApy
        /\ d.stake_ts < now
        /\ last.info.interest = Interest(ApyOf(d.stake_type), d.total_staked, now - d.stake_ts)
        /\ last.info.interest
             # Interest(IF d.stake_type = "NORMAL" THEN InitNormalApy ELSE InitLockedApy,
                        d.total_staked, now - d.stake_ts)

(***************************************************************************)
(* C33.  Every initialized contract record has minimum_stake_amount > 0:    *)
(* an Init with minimum_stake_amount 0 is rejected with no account created  *)
(* and no authority transferred, and no later instruction changes the       *)
(* minimum_stake_amount of an initialized record.                           *)
(***************************************************************************)
C33_MinimumStakePositive ==
    [][ /\ \A k \in ContractKeys :
             LET before == ContractAt(k)
                 after == IF k = ContractKey THEN contract' ELSE other'
             IN  /\ after.data.is_initialized => after.data.minimum_stake_amount > 0
                 /\ ( before.data.is_initialized /\ after.data.is_initialized ) =>
                        after.data.minimum_stake_amount = before.data.minimum_stake_amount
        /\ ( Ran("Init", AdminKey) /\ last'.args.minimum_stake_amount = 0 ) =>
             /\ ~last'.ok
             /\ last'.why \in {"MissingRequiredSignature", "ZeroMinimumStake"}
             /\ contract' = contract /\ other' = other
             /\ sol' = sol /\ tokens' = tokens
       ]_vars

\* an Init with minimum_stake_amount 0 and everything else in order was refused while no
\* contract record existed
C33_Witness ==
    /\ JustRan("Init", AdminKey) /\ ~last.ok /\ last.why = "ZeroMinimumStake"
    /\ last.args.minimum_stake_amount = 0
    /\ last.args.contract_data_account = ContractKey
    /\ contract.data_len = 0 /\ ~contract.data.is_initialized
    /\ tokens[VaultKey].owner = AdminKey

C35_VaultCoversTotalStaked ==
    \A k \in ContractKeys :
        ContractAt(k).data.is_initialized =>
            tokens[ContractAt(k).data.stake_token_account].amount
                >= ContractAt(k).data.total_staked

(***************************************************************************)
(* C36.  UserData and ContractData round-trip: unpack_from_slice of a       *)
(* buffer of exactly LEN bytes that pack_into_slice filled returns a record *)
(* equal to the one packed, with no error and no abort.                     *)
(***************************************************************************)
C36_PackRoundTrip ==
    eval.of \in {"ContractData", "UserData"} =>
        /\ Len(eval.buffer) = IF eval.of = "UserData" THEN USER_LEN ELSE CONTRACT_LEN
        /\ eval.result = Unpacked(eval.data)

(***************************************************************************)
(* C37.  An active stake can be withdrawn: once the minimum hold of a       *)
(* NORMAL record has elapsed, and at any time for a LOCKED record, an       *)
(* Unstake signed by the record's owner with the accounts of the pool       *)
(* succeeds whenever the vault holds what is to be transferred, whatever    *)
(* the balance of the user's own token account, zero included.              *)
(***************************************************************************)
C37_ActiveStakeWithdrawable ==
    [][ \A u \in Users, pool \in ContractKeys :
          LET d == users[u].data
              c == ContractAt(pool).data
              stake_duration == now - d.stake_ts
              owed ==
                  IF d.stake_type = "NORMAL" \/ stake_duration >= d.lock_duration
                  THEN d.total_staked + d.interest_accrued
                         + (ApyOf(d.stake_type) * d.total_staked * stake_duration)
                              \div YEAR_IN_SECONDS_SCALED
                  ELSE d.total_staked
                         - (c.early_withdrawal_fee * d.total_staked) \div FEE_DENOMINATOR
          IN
          ( /\ Ran("UnStake", u)
            /\ last'.args = PoolAccounts(u, pool)
            /\ c.is_initialized
            /\ Live(u) /\ d.owner_pubkey = u
            /\ d.stake_type = "NORMAL" => stake_duration >= MIN_NORMAL_HOLD
            /\ tokens[VaultOf(pool)].amount >= WithPayoutFee(owed) ) =>
              last'.ok ]_vars

(***************************************************************************)
(* C38.  For every early_withdrawal_fee that Init accepts and every         *)
(* principal X, the early-exit penalty floor(fee * X / 1000) is at most X:  *)
(* the payout of an early exit lies in 0..X and the subtraction of the      *)
(* penalty from the principal never goes below zero.                        *)
(***************************************************************************)
C38_PenaltyWithinPrincipal ==
    [][ \A u \in Users :
          LET d == users[u].data
              X == d.total_staked
              penalty == (contract.data.early_withdrawal_fee * X) \div FEE_DENOMINATOR
          IN
          ( /\ Ran("UnStake", u)
            /\ last'.args = HonestAccounts(u)
            /\ contract.data.is_initialized
            /\ Live(u) /\ d.stake_type = "LOCKED"
            /\ now - d.stake_ts < d.lock_duration ) =>
              /\ penalty <= X
              /\ last'.why # "ChargeAbovePrincipal"
              /\ last'.ok => last'.info.amount_out \in 0..X ]_vars

(***************************************************************************)
(* C39.  The contract's total_earned is the interest included in the        *)
(* payouts of completed Unstakes plus the sum of interest_accrued over the  *)
(* live user records.  Step by step: a restake adds the same interest to    *)
(* total_earned and to the record's interest_accrued, and the Unstake that  *)
(* closes a record pays out, as interest, what it adds to total_earned plus *)
(* the interest_accrued the record held; no interest counted into           *)
(* total_earned leaves the records without being paid.                      *)
(***************************************************************************)
C39_TotalEarnedAccounted ==
    [][ \A u \in Users :
          LET d == users[u].data
              earned == contract'.data.total_earned - contract.data.total_earned
              paid_interest ==
                  IF last'.info.amount_out > d.total_staked
                  THEN last'.info.amount_out - d.total_staked
                  ELSE 0
          IN
          /\ ( Succeeded("Stake", u) /\ Live(u) ) =>
                 earned = users'[u].data.interest_accrued - d.interest_accrued
          /\ ( Succeeded("UnStake", u) /\ Live(u) ) =>
                 earned + d.interest_accrued = paid_interest ]_vars

=============================================================================
